---- MODULE Spec2Model ----
(***************************************************************************)
(* nestjs-audit-logger: the request-audit capture pipeline                 *)
(* (AuditLoggerInterceptor + AuditLoggerService.saveAuditLog) and the      *)
(* maintenance and query operations of AuditLoggerService.                 *)
(*                                                                         *)
(* Strings that the code inspects character by character (URLs, route      *)
(* patterns, header values, tokens) are sequences of one-character         *)
(* strings.  Header and query names, which the code only compares or       *)
(* lower-cases as a whole, are TLA+ strings.                               *)
(***************************************************************************)
EXTENDS Integers, Sequences, FiniteSets, TLC

VARIABLES
    options,      \* AUDIT_LOGGER_OPTIONS injected into interceptor and service
    reqs,         \* one entry per call of intercept(), in arrival order
    immediates,   \* callbacks queued with setImmediate, FIFO
    attempts,     \* <<request, notification>> -> the call of saveAuditLog it led to
    store,        \* rows of audit_logs, in insert order
    errorLog,     \* number of logger.error calls
    now,          \* last reading of the clock (Date.now / new Date)
    cleanups,     \* calls of cleanupOldAuditLogs, in call order
    queries,      \* calls of getAuditLogs, in call order
    statistics,   \* calls of getAuditStatistics, in call order
    diagnostics   \* calls of testConnection, in call order

vars == <<options, reqs, immediates, attempts, store, errorLog, now, cleanups, queries,
          statistics, diagnostics>>

(***************************************************************************)
(* Bounds of the model.                                                    *)
(***************************************************************************)
MaxRequests == 2     \* calls of intercept()
MaxEvents == 2       \* notifications (values, error) of one handler stream
MaxClock == 1        \* clock readings 0..MaxClock

(***************************************************************************)
(* JavaScript values.                                                      *)
(***************************************************************************)
\* undefined, for string-valued slots (a "string" no request can carry)
Undefined == <<"undefined">>

\* JavaScript truthiness of a string-or-undefined value
Truthy(s) == s # Undefined /\ s # <<>>

\* a || b on string-or-undefined values
Or(a, b) == IF Truthy(a) THEN a ELSE b

\* optional booleans: "undefined", "true", "false"
Tri == {"undefined", "true", "false"}

\* a || b in place of a ?? b: a false on the left falls through
Nullish_or(a, b) == IF a = "true" THEN a ELSE b

\* a ?? b on optional booleans
Nullish(a, b) == IF a # "undefined" THEN a ELSE b

Range(s) == {s[i] : i \in 1..Len(s)}

\* an object without properties
EmptyMap == [x \in {} |-> <<>>]

\* String.prototype.startsWith
StartsWith(s, p) == Len(p) <= Len(s) /\ SubSeq(s, 1, Len(p)) = p

\* String.prototype.includes, for a one-character needle
Includes(s, c) == c \in Range(s)

\* String.prototype.toLowerCase on one character (the letters the model uses)
LowerChar(c) ==
    CASE c = "B" -> "b"
      [] c = "E" -> "e"
      [] c = "A" -> "a"
      [] c = "R" -> "r"
      [] OTHER -> c

\* String.prototype.toLowerCase on header names
toLowerCase(name) ==
    CASE name = "Authorization" -> "authorization"
      [] name = "User-Agent" -> "user-agent"
      [] name = "X-Forwarded-For" -> "x-forwarded-for"
      [] name = "X-Real-IP" -> "x-real-ip"
      [] name = "X-Client-IP" -> "x-client-ip"
      [] name = "Cookie" -> "cookie"
      [] OTHER -> name

(***************************************************************************)
(* Route exclusion.                                                        *)
(***************************************************************************)
\* route.replace(/\*/g, '.*')
RECURSIVE ReplaceStar(_)
ReplaceStar(route) ==
    IF route = <<>> THEN <<>>
    ELSE IF Head(route) = "*" THEN <<".", "*">> \o ReplaceStar(Tail(route))
    ELSE <<Head(route)>> \o ReplaceStar(Tail(route))

\* new RegExp(src) throws a SyntaxError: of the characters of the model only
\* "(" makes a source invalid (an unterminated group)
RegExpThrows(src) == "(" \in Range(src)

\* one regular-expression atom against one character: "." is any character
AtomMatches(a, c) == a = "." \/ a = c

\* new RegExp(`^${src}$`).test(s): every "*" of src follows an atom
RECURSIVE RegExpTest(_, _)
RegExpTest(src, s) ==
    IF src = <<>> THEN s = <<>>
    ELSE IF Len(src) >= 2 /\ src[2] = "*"
    THEN \/ RegExpTest(SubSeq(src, 3, Len(src)), s)
         \/ s # <<>> /\ AtomMatches(src[1], Head(s)) /\ RegExpTest(src, Tail(s))
    ELSE s # <<>> /\ AtomMatches(src[1], Head(s))
           /\ RegExpTest(Tail(src), Tail(s))

\* the callback of excludeRoutes.some: [threw, value]
routeMatches(route, url) ==
    IF Includes(route, "*")
    THEN LET pattern == ReplaceStar(route) IN
         IF RegExpThrows(pattern) THEN [threw |-> TRUE, value |-> FALSE]
         ELSE [threw |-> FALSE, value |-> RegExpTest(pattern, url)]
    ELSE [threw |-> FALSE, value |-> StartsWith(url, route)]

\* Array.prototype.some: in order, stops at the first true, a throw propagates
RECURSIVE some(_, _)
some(routes, url) ==
    IF routes = <<>> THEN [threw |-> FALSE, value |-> FALSE]
    ELSE LET m == routeMatches(Head(routes), url) IN
         IF m.threw \/ m.value THEN m ELSE some(Tail(routes), url)

\* options.excludeRoutes when the option is not set
NoRoutes == <<Undefined>>

shouldExcludeRoute(opts, url) ==
    IF opts.excludeRoutes = NoRoutes THEN [threw |-> FALSE, value |-> FALSE]
    ELSE some(opts.excludeRoutes, url)

(***************************************************************************)
(* The HTTP request as the interceptor reads it.                           *)
(* headers: lower-cased name -> value (Node lower-cases incoming names);   *)
(* query: parameter -> value.                                              *)
(***************************************************************************)
\* Express req.get(name): case-insensitive header lookup
get(request, name) ==
    LET lc == toLowerCase(name) IN
    IF lc \in DOMAIN request.headers THEN request.headers[lc] ELSE Undefined

\* request.query[param]
queryParam(request, param) ==
    IF param \in DOMAIN request.query THEN request.query[param] ELSE Undefined

\* forwarded.split(',')[0]
RECURSIVE FirstSegment(_)
FirstSegment(s) ==
    IF s = <<>> \/ Head(s) = "," THEN <<>>
    ELSE <<Head(s)>> \o FirstSegment(Tail(s))

RECURSIVE TrimLeft(_)
TrimLeft(s) == IF s # <<>> /\ Head(s) = " " THEN TrimLeft(Tail(s)) ELSE s

RECURSIVE TrimRight(_)
TrimRight(s) ==
    IF s # <<>> /\ s[Len(s)] = " " THEN TrimRight(SubSeq(s, 1, Len(s) - 1)) ELSE s

\* String.prototype.trim
trim(s) == TrimRight(TrimLeft(s))

Unknown == <<"u", "n", "k", "n", "o", "w", "n">>

extractRealIp(request) ==
    LET forwarded == get(request, "X-Forwarded-For") IN
    IF Truthy(forwarded) THEN trim(FirstSegment(forwarded))
    ELSE Or(get(request, "X-Real-IP"),
         Or(get(request, "X-Client-IP"),
         Or(request.remoteAddress,
         Or(request.ip, Unknown))))

extractRequestInfo(request) ==
    [method |-> request.method,
     url |-> request.url,
     headers |-> request.headers,
     query |-> request.query,
     body |-> request.body,
     ip |-> extractRealIp(request),
     userAgent |-> Or(get(request, "User-Agent"), <<>>)]

(***************************************************************************)
(* Token location.                                                         *)
(***************************************************************************)
\* number of leading whitespace characters
RECURSIVE LeadingSpaces(_)
LeadingSpaces(s) ==
    IF s # <<>> /\ Head(s) = " " THEN 1 + LeadingSpaces(Tail(s)) ELSE 0

LowerSeq(s) == [i \in 1..Len(s) |-> LowerChar(s[i])]

\* authHeader.match(/^Bearer\s+(.+)$/i): match[1], or Undefined without a match.
\* \s+ is greedy but gives back one character when nothing else is left to (.+)
BearerMatch(authHeader) ==
    IF Len(authHeader) >= 7
       /\ LowerSeq(SubSeq(authHeader, 1, 6)) = <<"b", "e", "a", "r", "e", "r">>
    THEN LET after == SubSeq(authHeader, 7, Len(authHeader))
             k == LeadingSpaces(after)
             rest == SubSeq(after, k + 1, Len(after))
         IN  IF k >= 1 /\ rest # <<>> THEN rest
             ELSE IF k >= 2 THEN <<" ">>
             ELSE Undefined
    ELSE Undefined

customHeaders == <<"x-api-token", "x-auth-token", "x-access-token", "api-key", "apikey">>

queryParams == <<"token", "apikey", "api_key", "access_token">>

\* for (const header of customHeaders) { value = request.get(header); if (value) return value }
RECURSIVE FirstHeader(_, _)
FirstHeader(request, names) ==
    IF names = <<>> THEN Undefined
    ELSE IF Truthy(get(request, Head(names))) THEN get(request, Head(names))
    ELSE FirstHeader(request, Tail(names))

\* for (const param of queryParams) { value = request.query[param]; if (value) return value }
RECURSIVE FirstQuery(_, _)
FirstQuery(request, names) ==
    IF names = <<>> THEN Undefined
    ELSE IF Truthy(queryParam(request, Head(names))) THEN queryParam(request, Head(names))
    ELSE FirstQuery(request, Tail(names))

\* a lookup that consults the query parameters before the headers
extractTokenFromRequest_queryFirst(request) ==
    LET authHeader == get(request, "Authorization") IN
    IF Truthy(FirstQuery(request, queryParams))
    THEN FirstQuery(request, queryParams)
    ELSE IF Truthy(authHeader)
    THEN IF BearerMatch(authHeader) # Undefined THEN BearerMatch(authHeader)
         ELSE authHeader
    ELSE FirstHeader(request, customHeaders)

extractTokenFromRequest(request) ==
    LET authHeader == get(request, "Authorization") IN
    IF Truthy(authHeader)
    THEN IF BearerMatch(authHeader) # Undefined THEN BearerMatch(authHeader)
         ELSE authHeader
    ELSE IF Truthy(FirstHeader(request, customHeaders))
    THEN FirstHeader(request, customHeaders)
    ELSE FirstQuery(request, queryParams)

(***************************************************************************)
(* Identity decoding.  A JSON object text is "{", one symbol per member    *)
(* ("sub:u1" stands for the member "sub":"u1"), "}".  A base64url text is  *)
(* the same symbols prefixed "b64:", one per encoded chunk.  "sub:" and     *)
(* "email:" are members whose value is the empty string.                   *)
(***************************************************************************)
Members ==
    {"sub:u1", "userId:u2", "id:u3", "user_id:u4",
     "email:e1", "user_email:e2", "userEmail:e3", "sub:", "email:"}

MemberKey(m) ==
    CASE m = "sub:u1" -> "sub"
      [] m = "userId:u2" -> "userId"
      [] m = "id:u3" -> "id"
      [] m = "user_id:u4" -> "user_id"
      [] m = "email:e1" -> "email"
      [] m = "user_email:e2" -> "user_email"
      [] m = "userEmail:e3" -> "userEmail"
      [] m = "sub:" -> "sub"
      [] m = "email:" -> "email"

MemberValue(m) ==
    CASE m = "sub:u1" -> <<"u", "1">>
      [] m = "userId:u2" -> <<"u", "2">>
      [] m = "id:u3" -> <<"u", "3">>
      [] m = "user_id:u4" -> <<"u", "4">>
      [] m = "email:e1" -> <<"e", "1">>
      [] m = "user_email:e2" -> <<"e", "2">>
      [] m = "userEmail:e3" -> <<"e", "3">>
      [] m = "sub:" -> <<>>
      [] m = "email:" -> <<>>

\* Buffer.from(part, 'base64url').toString(): never throws, unknown input is garbage
Base64UrlChunk(c) ==
    CASE c = "b64:{" -> "{"
      [] c = "b64:}" -> "}"
      [] c = "b64:sub:u1" -> "sub:u1"
      [] c = "b64:userId:u2" -> "userId:u2"
      [] c = "b64:id:u3" -> "id:u3"
      [] c = "b64:user_id:u4" -> "user_id:u4"
      [] c = "b64:email:e1" -> "email:e1"
      [] c = "b64:user_email:e2" -> "user_email:e2"
      [] c = "b64:userEmail:e3" -> "userEmail:e3"
      [] c = "b64:sub:" -> "sub:"
      [] c = "b64:email:" -> "email:"
      [] c = "b64:null" -> "null"
      [] c = "b64:5" -> "5"
      [] OTHER -> "?"

Base64UrlDecode(part) == [i \in 1..Len(part) |-> Base64UrlChunk(part[i])]

\* JSON texts that are not objects: null and a number
JsonScalars == {"null", "5"}

\* JSON.parse throws a SyntaxError unless the text is a well-formed object or a
\* scalar
JsonParseThrows(text) ==
    /\ ~ (/\ Len(text) >= 2
          /\ text[1] = "{"
          /\ text[Len(text)] = "}"
          /\ \A i \in 2..(Len(text) - 1) : text[i] \in Members)
    /\ ~ (Len(text) = 1 /\ text[1] \in JsonScalars)

\* payload.sub of a parsed text throws a TypeError: reading a property of null
PropertyReadThrows(text) == text = <<"null">>

\* parsed[key] of JSON.parse(text): a later duplicate member wins
JsonField(text, key) ==
    LET at == {i \in 2..(Len(text) - 1) : MemberKey(text[i]) = key} IN
    IF at = {} THEN Undefined
    ELSE MemberValue(text[CHOOSE i \in at : \A j \in at : j <= i])

\* token.split('.')
RECURSIVE split(_)
split(s) ==
    IF ~ Includes(s, ".") THEN <<s>>
    ELSE LET i == CHOOSE k \in 1..Len(s) : s[k] = "." /\ \A j \in 1..(k - 1) : s[j] # "."
         IN  <<SubSeq(s, 1, i - 1)>> \o split(SubSeq(s, i + 1, Len(s)))

\* the value a chain a || b || c || d of fields yields
RECURSIVE FirstField(_, _)
FirstField(text, keys) ==
    IF Len(keys) = 1 THEN JsonField(text, keys[1])
    ELSE Or(JsonField(text, Head(keys)), FirstField(text, Tail(keys)))

\* a decoder that takes the token itself for the value when it cannot decode it
decodeFromToken_fallback(token, jwtKeys, jsonKeys) ==
    IF Includes(token, ".") /\ Len(split(token)) = 3
    THEN LET text == Base64UrlDecode(split(token)[2]) IN
         IF JsonParseThrows(text) \/ PropertyReadThrows(text) THEN token
         ELSE FirstField(text, jwtKeys)
    ELSE IF StartsWith(token, <<"{">>)
    THEN IF JsonParseThrows(token) THEN token ELSE FirstField(token, jsonKeys)
    ELSE Undefined

\* the body shared by both built-in extractors: the keys of the JWT branch and
\* the keys of the JSON branch; a throw inside the try yields undefined
decodeFromToken(token, jwtKeys, jsonKeys) ==
    IF Includes(token, ".") /\ Len(split(token)) = 3
    THEN LET text == Base64UrlDecode(split(token)[2]) IN
         IF JsonParseThrows(text) \/ PropertyReadThrows(text) THEN Undefined
         ELSE FirstField(text, jwtKeys)
    ELSE IF StartsWith(token, <<"{">>)
    THEN IF JsonParseThrows(token) THEN Undefined ELSE FirstField(token, jsonKeys)
    ELSE Undefined

\* a decoder that applies the field order of the JSON branch to a JWT payload
extractUserIdFromCustomToken_jsonOrder(token) ==
    decodeFromToken(token,
        <<"userId", "id", "user_id", "sub">>,
        <<"userId", "id", "user_id", "sub">>)

extractUserIdFromCustomToken(token) ==
    decodeFromToken(token,
        <<"sub", "userId", "id", "user_id">>,
        <<"userId", "id", "user_id", "sub">>)

extractEmailFromCustomToken(token) ==
    decodeFromToken(token,
        <<"email", "user_email", "userEmail">>,
        <<"email", "user_email", "userEmail">>)

(***************************************************************************)
(* Installation-supplied extractors.  An option holds "none" when no       *)
(* function is configured; otherwise it names what the function does:      *)
(* "header" returns request.headers['my-custom-token'], "custom" returns   *)
(* an id or e-mail of its own, "nothing" returns undefined, "throws"       *)
(* raises.                                                                 *)
(***************************************************************************)
CustomUserId == <<"c", "u">>
CustomUserEmail == <<"c", "e">>

customTokenExtractor(opts, request) ==
    IF opts.customTokenExtractor = "throws"
    THEN [threw |-> TRUE, value |-> Undefined]
    ELSE [threw |-> FALSE,
          value |-> IF "my-custom-token" \in DOMAIN request.headers
                    THEN request.headers["my-custom-token"] ELSE Undefined]

customUserIdExtractor(opts, token) ==
    IF opts.customUserIdExtractor = "throws"
    THEN [threw |-> TRUE, value |-> Undefined]
    ELSE [threw |-> FALSE,
          value |-> IF opts.customUserIdExtractor = "nothing" THEN Undefined
                    ELSE CustomUserId]

customUserEmailExtractor(opts, token) ==
    IF opts.customUserEmailExtractor = "throws"
    THEN [threw |-> TRUE, value |-> Undefined]
    ELSE [threw |-> FALSE,
          value |-> IF opts.customUserEmailExtractor = "nothing" THEN Undefined
                    ELSE CustomUserEmail]

NoTokenInfo == [token |-> Undefined, userId |-> Undefined, userEmail |-> Undefined]

\* the extractor extractTokenInfo calls for a slot: the configured one or the
\* built-in one
Extractor(option, custom, builtin) == IF option # "none" THEN custom ELSE builtin

\* extractTokenInfo with the built-in lookup as a fallback for a custom token
\* extractor that returned nothing
extractTokenInfo_fallback(opts, request) ==
    LET own == IF opts.customTokenExtractor # "none"
               THEN customTokenExtractor(opts, request)
               ELSE [threw |-> FALSE, value |-> extractTokenFromRequest(request)]
        tok == IF ~ own.threw /\ ~ Truthy(own.value)
               THEN [threw |-> FALSE, value |-> extractTokenFromRequest(request)]
               ELSE own
        uid == IF opts.customUserIdExtractor # "none"
               THEN customUserIdExtractor(opts, tok.value)
               ELSE [threw |-> FALSE, value |-> extractUserIdFromCustomToken(tok.value)]
        mail == IF opts.customUserEmailExtractor # "none"
                THEN customUserEmailExtractor(opts, tok.value)
                ELSE [threw |-> FALSE, value |-> extractEmailFromCustomToken(tok.value)]
        first == {Extractor(opts.customTokenExtractor,
                            "customTokenExtractor", "extractTokenFromRequest")}
        second == {Extractor(opts.customUserIdExtractor,
                             "customUserIdExtractor", "extractUserIdFromCustomToken")}
        third == {Extractor(opts.customUserEmailExtractor,
                            "customUserEmailExtractor", "extractEmailFromCustomToken")}
    IN  IF tok.threw THEN [threw |-> TRUE, info |-> NoTokenInfo, invoked |-> first]
        ELSE IF ~ Truthy(tok.value)
        THEN [threw |-> FALSE, invoked |-> first,
              info |-> [token |-> tok.value, userId |-> Undefined, userEmail |-> Undefined]]
        ELSE IF uid.threw
        THEN [threw |-> TRUE, info |-> NoTokenInfo, invoked |-> first \cup second]
        ELSE IF mail.threw
        THEN [threw |-> TRUE, info |-> NoTokenInfo,
              invoked |-> first \cup second \cup third]
        ELSE [threw |-> FALSE, invoked |-> first \cup second \cup third,
              info |-> [token |-> tok.value, userId |-> uid.value, userEmail |-> mail.value]]

\* [threw, info, invoked]: a throw of a custom extractor leaves extractTokenInfo;
\* invoked names the extractors that were called
extractTokenInfo(opts, request) ==
    LET tok == IF opts.customTokenExtractor # "none"
               THEN customTokenExtractor(opts, request)
               ELSE [threw |-> FALSE, value |-> extractTokenFromRequest(request)]
        uid == IF opts.customUserIdExtractor # "none"
               THEN customUserIdExtractor(opts, tok.value)
               ELSE [threw |-> FALSE, value |-> extractUserIdFromCustomToken(tok.value)]
        mail == IF opts.customUserEmailExtractor # "none"
                THEN customUserEmailExtractor(opts, tok.value)
                ELSE [threw |-> FALSE, value |-> extractEmailFromCustomToken(tok.value)]
        first == {Extractor(opts.customTokenExtractor,
                            "customTokenExtractor", "extractTokenFromRequest")}
        second == {Extractor(opts.customUserIdExtractor,
                             "customUserIdExtractor", "extractUserIdFromCustomToken")}
        third == {Extractor(opts.customUserEmailExtractor,
                            "customUserEmailExtractor", "extractEmailFromCustomToken")}
    IN  IF tok.threw THEN [threw |-> TRUE, info |-> NoTokenInfo, invoked |-> first]
        ELSE IF ~ Truthy(tok.value)
        THEN [threw |-> FALSE, invoked |-> first,
              info |-> [token |-> tok.value, userId |-> Undefined, userEmail |-> Undefined]]
        ELSE IF uid.threw
        THEN [threw |-> TRUE, info |-> NoTokenInfo, invoked |-> first \cup second]
        ELSE IF mail.threw
        THEN [threw |-> TRUE, info |-> NoTokenInfo,
              invoked |-> first \cup second \cup third]
        ELSE [threw |-> FALSE, invoked |-> first \cup second \cup third,
              info |-> [token |-> tok.value, userId |-> uid.value, userEmail |-> mail.value]]

(***************************************************************************)
(* Header sanitization.                                                    *)
(***************************************************************************)
Redacted == <<"[", "R", "E", "D", "A", "C", "T", "E", "D", "]">>

sensitiveHeaders ==
    <<"authorization", "cookie", "x-api-token", "x-auth-token", "x-access-token",
      "api-key", "apikey">>

\* a redaction that masks the value by putting the marker in front of it
redactIfTruthy_prefix(sanitized, header) ==
    IF header \in DOMAIN sanitized /\ Truthy(sanitized[header])
    THEN [sanitized EXCEPT ![header] = Redacted \o @]
    ELSE sanitized

\* if (sanitized[header]) sanitized[header] = '[REDACTED]'
redactIfTruthy(sanitized, header) ==
    IF header \in DOMAIN sanitized /\ Truthy(sanitized[header])
    THEN [sanitized EXCEPT ![header] = Redacted]
    ELSE sanitized

\* sensitiveHeaders.forEach: the name as listed, then the name lower-cased
RECURSIVE forEachSensitive(_, _)
forEachSensitive(sanitized, names) ==
    IF names = <<>> THEN sanitized
    ELSE forEachSensitive(
             redactIfTruthy(redactIfTruthy(sanitized, Head(names)),
                            toLowerCase(Head(names))),
             Tail(names))

sanitizeHeaders(headers) == forEachSensitive(headers, sensitiveHeaders)

(***************************************************************************)
(* The @AuditLog marker.  A handler is [marked, options]; options is the   *)
(* AuditLogOptions object given to the decorator.                          *)
(***************************************************************************)
\* a check that finds the marker on every handler
isAuditLogEnabled_always(handler) == TRUE

isAuditLogEnabled(handler) == handler.marked

NoAuditOptions ==
    [serviceName |-> "undefined", description |-> "undefined",
     logRequestBody |-> "undefined", logResponseBody |-> "undefined"]

\* getAuditLogOptions(handler) || {}
getAuditLogOptions(handler) ==
    IF handler.marked THEN handler.options ELSE NoAuditOptions

(***************************************************************************)
(* Errors and stream notifications.                                        *)
(***************************************************************************)
\* error.status || 500
DefaultErrorStatus == 500

NoError == [id |-> <<"none", 0>>, hasStatus |-> FALSE, status |-> 0, message |-> "undefined"]

\* what a throw inside intercept() raises before the handler is reached
InterceptError(r) ==
    [id |-> <<"intercept", r>>, hasStatus |-> FALSE, status |-> 0,
     message |-> "thrown while computing audit fields"]

NextEvent(value) == [kind |-> "next", data |-> value, error |-> NoError]
ErrorEvent(error) == [kind |-> "error", data |-> "undefined", error |-> error]

NoRequestInfo ==
    [method |-> "undefined", url |-> <<>>, headers |-> EmptyMap, query |-> EmptyMap,
     body |-> "undefined", ip |-> Undefined, userAgent |-> Undefined]

(***************************************************************************)
(* intercept(): the synchronous part, up to the returned observable.       *)
(* state is NOT_AUDITED (next.handle() returned as is), CAPTURING (the     *)
(* piped observable returned) or THREW (intercept raised).  request is the *)
(* live request object, received its content when intercept() was called.  *)
(* settled lists the readings of Date.now() in tap and catchError.         *)
(***************************************************************************)
interceptEntry(opts, r, handler, request, t) ==
    LET base == [handler |-> handler, request |-> request, received |-> request,
                 state |-> "NOT_AUDITED", handlerCalls |-> 1,
                 startTime |-> t, timestamp |-> t,
                 auditOptions |-> NoAuditOptions,
                 requestInfo |-> NoRequestInfo, tokenInfo |-> NoTokenInfo,
                 extracted |-> FALSE, invoked |-> {},
                 emitted |-> <<>>, observed |-> <<>>, settled |-> <<>>,
                 done |-> FALSE]
        threw == [base EXCEPT !.state = "THREW", !.handlerCalls = 0,
                              !.observed = <<ErrorEvent(InterceptError(r))>>,
                              !.done = TRUE]
        excluded == shouldExcludeRoute(opts, request.url)
        tokenInfo == extractTokenInfo(opts, request)
    IN  IF ~ isAuditLogEnabled(handler) THEN base
        ELSE IF excluded.threw THEN threw
        ELSE IF excluded.value THEN base
        ELSE IF tokenInfo.threw
        THEN [threw EXCEPT !.extracted = TRUE, !.invoked = tokenInfo.invoked]
        ELSE [base EXCEPT !.state = "CAPTURING",
                          !.auditOptions = getAuditLogOptions(handler),
                          !.requestInfo = extractRequestInfo(request),
                          !.tokenInfo = tokenInfo.info,
                          !.extracted = TRUE,
                          !.invoked = tokenInfo.invoked]

\* the closure handed to setImmediate; req, event and path identify it in the
\* history, the rest are the arguments of createAuditLog
Callback(r, path, responseInfo, executionTime) ==
    [req |-> r, event |-> Len(reqs[r].emitted) + 1, path |-> path,
     timestamp |-> reqs[r].timestamp,
     requestInfo |-> reqs[r].requestInfo,
     responseInfo |-> responseInfo,
     tokenInfo |-> reqs[r].tokenInfo,
     executionTime |-> executionTime,
     auditOptions |-> reqs[r].auditOptions]

\* tap((responseData) => ...): the callback it schedules and the value it passes on
tap(r, responseData, statusCode, t) ==
    [scheduled |-> Callback(r, "tap",
                            [statusCode |-> statusCode, data |-> responseData],
                            t - reqs[r].startTime),
     passed |-> responseData]

\* catchError that throws a new error in place of the one it caught
catchError_wrap(r, error, t) ==
    [scheduled |-> Callback(r, "catchError",
                            [statusCode |-> IF error.hasStatus /\ error.status # 0
                                            THEN error.status ELSE DefaultErrorStatus,
                             data |-> error.message],
                            t - reqs[r].startTime),
     thrown |-> [id |-> <<"wrapped", r>>, hasStatus |-> TRUE,
                 status |-> DefaultErrorStatus, message |-> error.message]]

\* catchError that records the default status whatever the error carries
catchError_status(r, error, t) ==
    [scheduled |-> Callback(r, "catchError",
                            [statusCode |-> DefaultErrorStatus,
                             data |-> error.message],
                            t - reqs[r].startTime),
     thrown |-> error]

\* catchError((error) => ...): the callback it schedules and the error it throws
catchError(r, error, t) ==
    [scheduled |-> Callback(r, "catchError",
                            [statusCode |-> IF error.hasStatus /\ error.status # 0
                                            THEN error.status ELSE DefaultErrorStatus,
                             data |-> error.message],
                            t - reqs[r].startTime),
     thrown |-> error]

(***************************************************************************)
(* createAuditLog and saveAuditLog.                                        *)
(***************************************************************************)
\* an empty object in place of undefined
NoRequestData_empty ==
    [present |-> TRUE, body |-> "undefined", query |-> EmptyMap, headers |-> EmptyMap]

\* requestData: undefined
NoRequestData ==
    [present |-> FALSE, body |-> "undefined", query |-> EmptyMap, headers |-> EmptyMap]

\* the AuditLogData that createAuditLog composes
createAuditLog(opts, cb) ==
    LET shouldLogRequestBody ==
            Nullish(Nullish(cb.auditOptions.logRequestBody, opts.logRequestBody), "false")
        shouldLogResponseBody ==
            Nullish(Nullish(cb.auditOptions.logResponseBody, opts.logResponseBody), "false")
    IN  [timestamp |-> cb.timestamp,
         userId |-> cb.tokenInfo.userId,
         userEmail |-> cb.tokenInfo.userEmail,
         httpMethod |-> cb.requestInfo.method,
         endpoint |-> cb.requestInfo.url,
         serviceName |-> cb.auditOptions.serviceName,
         actionDescription |-> cb.auditOptions.description,
         requestData |-> IF shouldLogRequestBody = "true"
                         THEN [present |-> TRUE,
                               body |-> cb.requestInfo.body,
                               query |-> cb.requestInfo.query,
                               headers |-> sanitizeHeaders(cb.requestInfo.headers)]
                         ELSE NoRequestData,
         responseData |-> IF shouldLogResponseBody = "true"
                          THEN cb.responseInfo.data ELSE "undefined",
         userAgent |-> cb.requestInfo.userAgent,
         ipAddress |-> cb.requestInfo.ip,
         token |-> cb.tokenInfo.token,
         statusCode |-> cb.responseInfo.statusCode,
         executionTimeMs |-> cb.executionTime]

\* requestInfo.headers, .query and .body are the request's own objects, not
\* copies: what createAuditLog reads through them is their content when it runs
Dereference(cb) ==
    [cb EXCEPT !.requestInfo.headers = reqs[cb.req].request.headers,
               !.requestInfo.query = reqs[cb.req].request.query,
               !.requestInfo.body = reqs[cb.req].request.body]

\* a call of saveAuditLog from createAuditLog.  deferred: it runs in a later turn
\* of the event loop than the one that scheduled it; handed: the notification that
\* scheduled it had reached the framework when it started.  outcome is "saving" (create returned,
\* save awaited), then "saved", "createThrew" or "saveRejected"; result is the
\* state of the promise saveAuditLog returned; creates and saves count the calls of
\* repository.create and repository.save
startAttempt(cb, deferred, handed) ==
    [req |-> cb.req, event |-> cb.event, path |-> cb.path,
     deferred |-> deferred, handed |-> handed,
     data |-> createAuditLog(options, Dereference(cb)),
     creates |-> 1, saves |-> 1,
     outcome |-> "saving", result |-> "pending", row |-> 0]

\* a catch block that logs and rethrows
saveAuditLogCatch_rethrow(attempt, outcome) ==
    [attempt EXCEPT !.outcome = outcome, !.result = "rejected",
                    !.saves = IF outcome = "createThrew" THEN 0 ELSE @]

\* the catch block of saveAuditLog: logs, does not rethrow; when create threw,
\* save was never called
saveAuditLogCatch(attempt, outcome) ==
    [attempt EXCEPT !.outcome = outcome, !.result = "resolved",
                    !.saves = IF outcome = "createThrew" THEN 0 ELSE @]

\* the end of the try block of saveAuditLog after a successful save
saveAuditLogDone(attempt, id) ==
    [attempt EXCEPT !.outcome = "saved", !.result = "resolved", !.row = id]

\* createAuditLog called inline, in the turn in which the handler settled and
\* before the notification is passed on
setImmediate_inline(loop, cb) ==
    [loop EXCEPT !.attempts = @ @@ (<<cb.req, cb.event>> :> startAttempt(cb, FALSE, FALSE))]

\* setImmediate(() => this.createAuditLog(...)) on the event loop
\* loop = [immediates, attempts]
setImmediate(loop, cb) == [loop EXCEPT !.immediates = Append(@, cb)]

(***************************************************************************)
(* Actions.  Each is one turn of the event loop.  env names what the       *)
(* surroundings can do: the handlers and requests that exist, what a       *)
(* handler can emit, how the store can fail, and the bounds.               *)
(***************************************************************************)
\* Date.now() / new Date(): the system's wall clock.  A reading is not below the
\* one before it (t) unless the clock was set back in between (an NTP step, an
\* operator changing the time), which env.clockSetBack says can happen
ClockReadings(env, t) == {u \in 0..env.maxClock : u >= t \/ env.clockSetBack}

\* the state after construction, over a table that holds the given rows
InitFrom(OptionSets, Stores) ==
    /\ options \in OptionSets
    /\ reqs = <<>>
    /\ immediates = <<>>
    /\ attempts = EmptyMap
    /\ store \in Stores
    /\ errorLog = 0
    /\ now = 0
    /\ cleanups = <<>>
    /\ queries = <<>>
    /\ statistics = <<>>
    /\ diagnostics = <<>>

\* the state after construction over an empty table
InitWith(OptionSets) == InitFrom(OptionSets, {<<>>})

\* the framework calls intercept(context, next) for a request to a handler
intercept(env) ==
    /\ Len(reqs) < env.maxRequests
    /\ \E handler \in env.handlers, request \in env.requests,
          t \in ClockReadings(env, now) :
          /\ reqs' = Append(reqs,
                 interceptEntry(options, Len(reqs) + 1, handler, request, t))
          /\ now' = t
    /\ UNCHANGED <<statistics, diagnostics, cleanups, queries, options, immediates,
                    attempts, store, errorLog>>

\* the handler's stream emits a value
HandlerNext(env) ==
    /\ \E r \in 1..Len(reqs), value \in env.values, statusCode \in env.statusCodes,
          t \in ClockReadings(env, now) :
          /\ ~ reqs[r].done
          /\ Len(reqs[r].emitted) < env.maxEvents
          /\ IF reqs[r].state = "CAPTURING"
             THEN LET op == tap(r, value, statusCode, t)
                      loop == setImmediate(
                                  [immediates |-> immediates, attempts |-> attempts],
                                  op.scheduled)
                  IN  /\ immediates' = loop.immediates
                      /\ attempts' = loop.attempts
                      /\ reqs' = [reqs EXCEPT
                                    ![r].emitted = Append(@, NextEvent(value)),
                                    ![r].observed = Append(@, NextEvent(op.passed)),
                                    ![r].settled = Append(@, t)]
                      /\ now' = t
             ELSE /\ reqs' = [reqs EXCEPT
                                ![r].emitted = Append(@, NextEvent(value)),
                                ![r].observed = Append(@, NextEvent(value))]
                  /\ t = now
                  /\ statusCode = CHOOSE c \in env.statusCodes : TRUE
                  /\ UNCHANGED <<immediates, attempts, now>>
    /\ UNCHANGED <<statistics, diagnostics, cleanups, queries, options, store, errorLog>>

\* the handler throws, or its stream ends with an error
HandlerError(env) ==
    /\ \E r \in 1..Len(reqs), e \in env.errors, t \in ClockReadings(env, now) :
          LET error == [e EXCEPT !.id = <<"handler", r>>] IN
          /\ ~ reqs[r].done
          /\ Len(reqs[r].emitted) < env.maxEvents
          /\ IF reqs[r].state = "CAPTURING"
             THEN LET op == catchError(r, error, t)
                      loop == setImmediate(
                                  [immediates |-> immediates, attempts |-> attempts],
                                  op.scheduled)
                  IN  /\ immediates' = loop.immediates
                      /\ attempts' = loop.attempts
                      /\ reqs' = [reqs EXCEPT
                                    ![r].emitted = Append(@, ErrorEvent(error)),
                                    ![r].observed = Append(@, ErrorEvent(op.thrown)),
                                    ![r].settled = Append(@, t),
                                    ![r].done = TRUE]
                      /\ now' = t
             ELSE /\ reqs' = [reqs EXCEPT
                                ![r].emitted = Append(@, ErrorEvent(error)),
                                ![r].observed = Append(@, ErrorEvent(error)),
                                ![r].done = TRUE]
                  /\ t = now
                  /\ UNCHANGED <<immediates, attempts, now>>
    /\ UNCHANGED <<statistics, diagnostics, cleanups, queries, options, store, errorLog>>

\* the handler's stream completes
HandlerComplete ==
    /\ \E r \in 1..Len(reqs) :
          /\ ~ reqs[r].done
          /\ reqs' = [reqs EXCEPT ![r].done = TRUE]
    /\ UNCHANGED <<statistics, diagnostics, cleanups, queries, options, immediates,
                    attempts, store, errorLog, now>>

\* logger.error calls an attempt causes when it fails: one in saveAuditLog's catch,
\* one more in createAuditLog's catch if saveAuditLog rejected
LoggedErrors(attempt) == 1 + (IF attempt.result = "rejected" THEN 1 ELSE 0)

\* the check phase runs the oldest setImmediate callback: createAuditLog composes
\* the record and calls saveAuditLog, which runs up to the awaited save
RunImmediate(env) ==
    /\ immediates # <<>>
    /\ LET cb == Head(immediates)
           attempt == startAttempt(cb, TRUE, Len(reqs[cb.req].observed) >= cb.event)
       IN  \E throws \in env.createThrows :
              IF throws
              THEN /\ attempts' = attempts @@
                          (<<cb.req, cb.event>> :> saveAuditLogCatch(attempt, "createThrew"))
                   /\ errorLog' = errorLog
                                  + LoggedErrors(saveAuditLogCatch(attempt, "createThrew"))
              ELSE /\ attempts' = attempts @@ (<<cb.req, cb.event>> :> attempt)
                   /\ errorLog' = errorLog
    /\ immediates' = Tail(immediates)
    /\ UNCHANGED <<statistics, diagnostics, cleanups, queries, options, reqs, store, now>>

\* the id the store gives the next row: one more than the highest id it has given
\* (to a row it holds, to a record saveAuditLog saved, to a diagnostic record)
NextId ==
    LET given == {store[i].id : i \in 1..Len(store)}
                 \cup {attempts[k].row : k \in DOMAIN attempts}
                 \cup {diagnostics[i].testLog : i \in 1..Len(diagnostics)}
    IN  IF given = {} THEN 1 ELSE 1 + CHOOSE n \in given : \A m \in given : m <= n

\* a save that overwrites the newest row when there is one, and inserts otherwise
SaveSettles_upsert(env) ==
    /\ \E i \in DOMAIN attempts, rejects \in env.saveRejects :
          /\ attempts[i].outcome = "saving"
          /\ IF rejects
             THEN /\ attempts' = [attempts EXCEPT
                                    ![i] = saveAuditLogCatch(@, "saveRejected")]
                  /\ errorLog' = errorLog
                                 + LoggedErrors(saveAuditLogCatch(attempts[i], "saveRejected"))
                  /\ store' = store
             ELSE /\ attempts' = [attempts EXCEPT
                                    ![i] = saveAuditLogDone(@, NextId)]
                  /\ store' = IF store = <<>>
                              THEN <<[id |-> 1, data |-> attempts[i].data]>>
                              ELSE [store EXCEPT ![Len(store)].data = attempts[i].data]
                  /\ errorLog' = errorLog
    /\ UNCHANGED <<statistics, diagnostics, cleanups, queries, options, reqs,
                    immediates, now>>

\* the store answers an awaited repository.save
SaveSettles(env) ==
    /\ \E i \in DOMAIN attempts, rejects \in env.saveRejects :
          /\ attempts[i].outcome = "saving"
          /\ IF rejects
             THEN /\ attempts' = [attempts EXCEPT
                                    ![i] = saveAuditLogCatch(@, "saveRejected")]
                  /\ errorLog' = errorLog
                                 + LoggedErrors(saveAuditLogCatch(attempts[i], "saveRejected"))
                  /\ store' = store
             ELSE /\ attempts' = [attempts EXCEPT
                                    ![i] = saveAuditLogDone(@, NextId)]
                  /\ store' = Append(store,
                                 [id |-> NextId, data |-> attempts[i].data])
                  /\ errorLog' = errorLog
    /\ UNCHANGED <<statistics, diagnostics, cleanups, queries, options, reqs,
                    immediates, now>>

\* the handler, or code that runs after it, changes the content of the request's
\* body, query or headers object in place (body.password = hash, delete
\* query.page, headers['x-user'] = id)
HandlerMutates(env) ==
    /\ \E r \in 1..Len(reqs), field \in env.mutations :
          /\ reqs[r].handlerCalls = 1
          /\ reqs[r].request = reqs[r].received
          /\ reqs' = [reqs EXCEPT ![r].request =
                CASE field = "body" -> [@ EXCEPT !.body = "changed"]
                  [] field = "query" -> [@ EXCEPT !.query = EmptyMap]
                  [] field = "headers" ->
                        [@ EXCEPT !.headers = @ @@ ("x-user" :> <<"u">>)]]
    /\ UNCHANGED <<statistics, diagnostics, cleanups, queries, options, immediates,
                    attempts, store, errorLog, now>>

NextIn(env) ==
    \/ intercept(env)
    \/ HandlerNext(env)
    \/ HandlerError(env)
    \/ HandlerComplete
    \/ RunImmediate(env)
    \/ SaveSettles(env)

(***************************************************************************)
(* cleanupOldAuditLogs.  The clock counts days.  A call is pending while   *)
(* the DELETE is awaited, then resolved with a count or rejected.          *)
(***************************************************************************)
\* what a failing DELETE raises
DeleteError ==
    [id |-> <<"store", 0>>, hasStatus |-> FALSE, status |-> 0, message |-> "delete failed"]

\* cutoffDate = new Date(); cutoffDate.setDate(cutoffDate.getDate() - retentionDays)
cutoffDate(t, retentionDays) == t - retentionDays

\* a DELETE that also takes the rows stamped with the cutoff itself
deleteWhere_inclusive(rows, cutoff) ==
    LET stays(row) == ~ (row.data.timestamp <= cutoff) IN SelectSeq(rows, stays)

\* .delete().where('timestamp < :cutoffDate'): the rows that stay
deleteWhere(rows, cutoff) ==
    LET stays(row) == ~ (row.data.timestamp < cutoff) IN SelectSeq(rows, stays)

\* a catch block that logs and reports that nothing was deleted
cleanupOldAuditLogsCatch_swallow(call, error) ==
    [call EXCEPT !.state = "resolved", !.value = 0]

\* the catch block of cleanupOldAuditLogs: logs and rethrows
cleanupOldAuditLogsCatch(call, error) ==
    [call EXCEPT !.state = "rejected", !.error = error]

\* the try block after the DELETE: deletedCount = result.affected || 0
cleanupOldAuditLogsDone(call, rows) ==
    [call EXCEPT !.state = "resolved",
                 !.value = Len(rows) - Len(deleteWhere(rows, call.cutoffDate))]

\* cleanupOldAuditLogs(retentionDays) up to the awaited DELETE
cleanupOldAuditLogs(env) ==
    /\ Len(cleanups) < env.maxCleanups
    /\ \E retentionDays \in env.retentionDays, t \in ClockReadings(env, now) :
          /\ cleanups' = Append(cleanups,
                 [retentionDays |-> retentionDays, calledAt |-> t,
                  cutoffDate |-> cutoffDate(t, retentionDays),
                  state |-> "pending", value |-> 0, error |-> NoError,
                  deleteFailed |-> FALSE, rowsBefore |-> 0])
          /\ now' = t
    /\ UNCHANGED <<statistics, diagnostics, options, reqs, immediates, attempts, store,
                    errorLog, queries>>

\* the store answers the awaited DELETE
DeleteSettles(env) ==
    /\ \E i \in 1..Len(cleanups), rejects \in env.deleteRejects :
          /\ cleanups[i].state = "pending"
          /\ IF rejects
             THEN /\ cleanups' = [cleanups EXCEPT ![i] =
                         cleanupOldAuditLogsCatch(
                             [@ EXCEPT !.deleteFailed = TRUE, !.rowsBefore = Len(store)],
                             DeleteError)]
                  /\ errorLog' = errorLog + 1
                  /\ store' = store
             ELSE /\ cleanups' = [cleanups EXCEPT ![i] =
                         cleanupOldAuditLogsDone([@ EXCEPT !.rowsBefore = Len(store)], store)]
                  /\ store' = deleteWhere(store, cleanups[i].cutoffDate)
                  /\ errorLog' = errorLog
    /\ UNCHANGED <<statistics, diagnostics, options, reqs, immediates, attempts, now,
                    queries>>

(***************************************************************************)
(* getAuditLogs.  A filter that is not given is Undefined, "undefined", 0  *)
(* (a status code or a page of 0 is falsy, like an absent one) or NoDate.  *)
(***************************************************************************)
NoDate == [given |-> FALSE, value |-> 0]
Date(t) == [given |-> TRUE, value |-> t]

NoFilters ==
    [userId |-> Undefined, serviceName |-> "undefined", httpMethod |-> "undefined",
     statusCode |-> 0, endpoint |-> Undefined, startDate |-> NoDate, endDate |-> NoDate]

NoQueryOptions ==
    [page |-> 0, limit |-> 0, sortBy |-> "undefined", sortOrder |-> "undefined"]

\* s ILIKE pattern: "%" is any run of characters, "_" any one character, letters
\* match whatever their case
RECURSIVE ILike(_, _)
ILike(s, pattern) ==
    IF pattern = <<>> THEN s = <<>>
    ELSE IF Head(pattern) = "%"
    THEN ILike(s, Tail(pattern)) \/ (s # <<>> /\ ILike(Tail(s), pattern))
    ELSE IF Head(pattern) = "_"
    THEN s # <<>> /\ ILike(Tail(s), Tail(pattern))
    ELSE /\ s # <<>>
         /\ LowerChar(Head(s)) = LowerChar(Head(pattern))
         /\ ILike(Tail(s), Tail(pattern))

\* the conjunction of the andWhere clauses the given filters add
andWhere(row, filters) ==
    /\ Truthy(filters.userId) => row.data.userId = filters.userId
    /\ filters.serviceName # "undefined" => row.data.serviceName = filters.serviceName
    /\ filters.httpMethod # "undefined" => row.data.httpMethod = filters.httpMethod
    /\ filters.statusCode # 0 => row.data.statusCode = filters.statusCode
    /\ Truthy(filters.endpoint) =>
          ILike(row.data.endpoint, <<"%">> \o filters.endpoint \o <<"%">>)
    /\ filters.startDate.given => row.data.timestamp >= filters.startDate.value
    /\ filters.endDate.given => row.data.timestamp <= filters.endDate.value

\* options.page || 1, options.limit || 50
DefaultPage == 1
DefaultLimit == 50

\* the column audit.${sortBy} of a row
column(row, sortBy) ==
    CASE sortBy = "timestamp" -> row.data.timestamp
      [] sortBy = "statusCode" -> row.data.statusCode
      [] sortBy = "id" -> row.id

\* ORDER BY audit.${sortBy} ${sortOrder}: the arrangements of the rows the store
\* may return; rows with equal keys come in any order
orderBy(rows, sortBy, sortOrder) ==
    {seq \in [1..Cardinality(rows) -> rows] :
        /\ \A i, j \in DOMAIN seq : i # j => seq[i] # seq[j]
        /\ \A i, j \in DOMAIN seq :
              i < j => IF sortOrder = "ASC"
                       THEN column(seq[i], sortBy) <= column(seq[j], sortBy)
                       ELSE column(seq[i], sortBy) >= column(seq[j], sortBy)}

\* skip(skip).take(limit) of an arrangement
skipTake(seq, skip, limit) ==
    SubSeq(seq, skip + 1, IF skip + limit < Len(seq) THEN skip + limit ELSE Len(seq))

\* the results getAuditLogs(filters, opts) can return over the rows
getManyAndCount(rows, filters, opts) ==
    LET matching == {rows[j] : j \in {i \in 1..Len(rows) : andWhere(rows[i], filters)}}
        sortBy == IF opts.sortBy # "undefined" THEN opts.sortBy ELSE "timestamp"
        sortOrder == IF opts.sortOrder # "undefined" THEN opts.sortOrder ELSE "DESC"
        page == IF opts.page # 0 THEN opts.page ELSE DefaultPage
        limit == IF opts.limit # 0 THEN opts.limit ELSE DefaultLimit
        skip == (page - 1) * limit
    IN  {[data |-> skipTake(seq, skip, limit), total |-> Cardinality(matching),
          page |-> page, limit |-> limit] :
            seq \in orderBy(matching, sortBy, sortOrder)}

\* a call of getAuditLogs and its result
getAuditLogs(env) ==
    /\ Len(queries) < env.maxQueries
    /\ \E filters \in env.filters, opts \in env.queryOptions :
          \E result \in getManyAndCount(store, filters, opts) :
              queries' = Append(queries,
                  [filters |-> filters, options |-> opts, result |-> result])
    /\ UNCHANGED <<statistics, diagnostics, options, reqs, immediates, attempts, store,
                    errorLog, now, cleanups>>

(***************************************************************************)
(* getAuditStatistics.  The operation awaits six queries one after the     *)
(* other; pc names the query that is awaited, each is answered over the    *)
(* table as it is when the store answers.  A number that is not an integer *)
(* (the average) is the fraction [num, den] in lowest terms.               *)
(***************************************************************************)
NoStatisticsFilters ==
    [startDate |-> NoDate, endDate |-> NoDate, serviceName |-> "undefined"]

\* the andWhere clauses added to queryBuilder for the given filters
statisticsWhere(row, filters) ==
    /\ filters.startDate.given => row.data.timestamp >= filters.startDate.value
    /\ filters.endDate.given => row.data.timestamp <= filters.endDate.value
    /\ filters.serviceName # "undefined" => row.data.serviceName = filters.serviceName

\* queryBuilder.getCount()
getCount(rows, filters) ==
    Cardinality({i \in 1..Len(rows) : statisticsWhere(rows[i], filters)})

\* queryBuilder.clone().andWhere('statusCode >= 200 AND statusCode < 300').getCount()
getCountSuccessful(rows, filters) ==
    Cardinality({i \in 1..Len(rows) :
                    /\ statisticsWhere(rows[i], filters)
                    /\ rows[i].data.statusCode >= 200
                    /\ rows[i].data.statusCode < 300})

\* queryBuilder.clone().andWhere('statusCode >= 400').getCount()
getCountFailed(rows, filters) ==
    Cardinality({i \in 1..Len(rows) :
                    /\ statisticsWhere(rows[i], filters)
                    /\ rows[i].data.statusCode >= 400})

RECURSIVE Gcd(_, _)
Gcd(a, b) == IF b = 0 THEN a ELSE Gcd(b, a % b)

Abs(n) == IF n < 0 THEN 0 - n ELSE n

\* the number num / den
Fraction(num, den) ==
    LET g == Gcd(Abs(num), den) IN [num |-> num \div g, den |-> den \div g]

\* the sum of executionTimeMs over the rows at the given places
RECURSIVE SumExecutionTimeMs(_, _)
SumExecutionTimeMs(rows, at) ==
    IF at = {} THEN 0
    ELSE LET i == CHOOSE j \in at : TRUE IN
         rows[i].data.executionTimeMs + SumExecutionTimeMs(rows, at \ {i})

\* parseFloat(avgResult?.avg || '0') of SELECT AVG(executionTimeMs): AVG over no
\* rows is NULL
getRawOneAvg(rows, filters) ==
    LET at == {i \in 1..Len(rows) : statisticsWhere(rows[i], filters)} IN
    IF at = {} THEN Fraction(0, 1)
    ELSE Fraction(SumExecutionTimeMs(rows, at), Cardinality(at))

\* .limit(10)
TopLimit == 10

\* ORDER BY count DESC LIMIT n over the groups: the lists the store may return;
\* groups with equal counts come in any order
orderByCountLimit(groups, n) ==
    LET len == IF Cardinality(groups) < n THEN Cardinality(groups) ELSE n IN
    {seq \in [1..len -> groups] :
        /\ \A i, j \in 1..len : i # j => seq[i] # seq[j]
        /\ \A i \in 1..len : \A g \in groups :
              g.count > seq[i].count => \E j \in 1..len : seq[j] = g
        /\ \A i, j \in 1..len : i < j => seq[i].count >= seq[j].count}

\* SELECT endpoint, COUNT(*) ... GROUP BY endpoint ORDER BY count DESC LIMIT 10,
\* mapped to {endpoint, count: parseInt(count)}
getRawManyEndpoints(rows, filters) ==
    LET at == {i \in 1..Len(rows) : statisticsWhere(rows[i], filters)}
        groups == {[endpoint |-> rows[i].data.endpoint,
                    count |-> Cardinality({j \in at :
                                 rows[j].data.endpoint = rows[i].data.endpoint})] :
                   i \in at}
    IN  orderByCountLimit(groups, TopLimit)

\* SELECT userId, COUNT(*) ... .where('userId IS NOT NULL') GROUP BY userId ORDER
\* BY count DESC LIMIT 10.  where() sets the WHERE clause anew: the conditions
\* andWhere added for the filters are dropped from this query
getRawManyUsers(rows, filters) ==
    LET at == {i \in 1..Len(rows) : rows[i].data.userId # Undefined}
        groups == {[userId |-> rows[i].data.userId,
                    count |-> Cardinality({j \in at :
                                 rows[j].data.userId = rows[i].data.userId})] :
                   i \in at}
    IN  orderByCountLimit(groups, TopLimit)

\* what a failing query raises
QueryError ==
    [id |-> <<"query", 0>>, hasStatus |-> FALSE, status |-> 0, message |-> "query failed"]

\* getAuditStatistics(filters) up to the first awaited query
getAuditStatistics(env) ==
    /\ Len(statistics) < env.maxStatistics
    /\ \E filters \in env.statisticsFilters :
          statistics' = Append(statistics,
              [filters |-> filters, pc |-> "total", error |-> NoError,
               totalRequests |-> 0, successfulRequests |-> 0, failedRequests |-> 0,
               averageExecutionTime |-> Fraction(0, 1),
               topEndpoints |-> <<>>, topUsers |-> <<>>])
    /\ UNCHANGED <<diagnostics, options, reqs, immediates, attempts, store, errorLog,
                   now, cleanups, queries>>

\* the store answers the awaited query of a call, which goes on to the next
\* query, returns the result after the last, or is rejected with the error of
\* a query that failed
StatisticsSettles(env) ==
    /\ \E i \in 1..Len(statistics), rejects \in env.queryRejects :
          LET call == statistics[i]
              f == call.filters
          IN  /\ call.pc \notin {"returned", "rejected"}
              /\ IF rejects
                 THEN statistics' = [statistics EXCEPT ![i].pc = "rejected",
                                                       ![i].error = QueryError]
                 ELSE CASE call.pc = "total" ->
                             statistics' = [statistics EXCEPT
                                 ![i].totalRequests = getCount(store, f),
                                 ![i].pc = "successful"]
                        [] call.pc = "successful" ->
                             statistics' = [statistics EXCEPT
                                 ![i].successfulRequests = getCountSuccessful(store, f),
                                 ![i].pc = "failed"]
                        [] call.pc = "failed" ->
                             statistics' = [statistics EXCEPT
                                 ![i].failedRequests = getCountFailed(store, f),
                                 ![i].pc = "average"]
                        [] call.pc = "average" ->
                             statistics' = [statistics EXCEPT
                                 ![i].averageExecutionTime = getRawOneAvg(store, f),
                                 ![i].pc = "topEndpoints"]
                        [] call.pc = "topEndpoints" ->
                             \E top \in getRawManyEndpoints(store, f) :
                                 statistics' = [statistics EXCEPT
                                     ![i].topEndpoints = top,
                                     ![i].pc = "topUsers"]
                        [] call.pc = "topUsers" ->
                             \E top \in getRawManyUsers(store, f) :
                                 statistics' = [statistics EXCEPT
                                     ![i].topUsers = top,
                                     ![i].pc = "returned"]
    /\ UNCHANGED <<diagnostics, options, reqs, immediates, attempts, store, errorLog,
                   now, cleanups, queries>>

(***************************************************************************)
(* testConnection.  pc names the awaited step of a call: hasTable,         *)
(* release, save, delete; a call that has returned holds its result.       *)
(* repository names the state of the injected repository: "absent" (not    *)
(* injected), "unregistered" (reading its metadata throws),                *)
(* "uninitialized" (connection.isInitialized is false) or "ready".         *)
(***************************************************************************)
\* what a failing step of the diagnostic raises
DiagnosticError ==
    [id |-> <<"diagnostic", 0>>, hasStatus |-> FALSE, status |-> 0,
     message |-> "step failed"]

\* the object testConnection returns; error is "undefined" when there is none
ConnectionResult(connected, tableExists, canWrite, error) ==
    [connected |-> connected, tableExists |-> tableExists, canWrite |-> canWrite,
     error |-> error]

\* testData, as repository.create(testData) makes it an entity
testData(timestamp) ==
    [timestamp |-> timestamp, userId |-> Undefined, userEmail |-> Undefined,
     httpMethod |-> "GET",
     endpoint |-> <<"/", "t", "e", "s", "t", "-", "a", "u", "d", "i", "t", "-",
                    "c", "o", "n", "n", "e", "c", "t", "i", "o", "n">>,
     serviceName |-> "AuditLoggerDiagnostic", actionDescription |-> "Connection test",
     requestData |-> NoRequestData, responseData |-> "undefined",
     userAgent |-> Undefined, ipAddress |-> Undefined, token |-> Undefined,
     statusCode |-> 200, executionTimeMs |-> 0]

\* the outer catch block: logs the error and returns a result of all false
testConnectionCatch(call, error) ==
    [call EXCEPT !.pc = "returned",
                 !.result = ConnectionResult(FALSE, FALSE, FALSE, error.message)]

\* repository.delete({ id }): the rows that stay
deleteById(rows, id) ==
    LET stays(row) == row.id # id IN SelectSeq(rows, stays)

\* testConnection() up to its first await, or to its return when one of the
\* synchronous checks fails.  before and written are kept for the history: the
\* table at the call, and whether the test record was written
testConnection(env) ==
    /\ Len(diagnostics) < env.maxDiagnostics
    /\ \E repository \in env.repository :
          LET call == [pc |-> "hasTable", tableExists |-> FALSE, testLog |-> 0,
                       testData |-> testData(0), before |-> store, written |-> FALSE,
                       result |-> ConnectionResult(FALSE, FALSE, FALSE, "undefined")]
              returns(error) ==
                  [call EXCEPT !.pc = "returned",
                               !.result = ConnectionResult(FALSE, FALSE, FALSE, error)]
          IN  diagnostics' = Append(diagnostics,
                  CASE repository = "absent" ->
                          returns("AuditLogRepository not injected")
                    [] repository = "unregistered" ->
                          returns("AuditLogEntity not registered in TypeORM")
                    [] repository = "uninitialized" ->
                          returns("Database connection not initialized")
                    [] repository = "ready" -> call)
    /\ UNCHANGED <<statistics, options, reqs, immediates, attempts, store, errorLog,
                   now, cleanups, queries>>

\* the awaited step of a call settles and the call runs on to its next await
\* or to its return
ConnectionSettles(env) ==
    /\ \E i \in 1..Len(diagnostics), rejects \in env.stepRejects,
          exists \in env.tableExists, t \in ClockReadings(env, now) :
          LET call == diagnostics[i] IN
          /\ call.pc # "returned"
          /\ IF rejects
             THEN /\ diagnostics' = [diagnostics EXCEPT
                                       ![i] = testConnectionCatch(call, DiagnosticError)]
                  /\ errorLog' = errorLog + 1
                  /\ UNCHANGED <<store, now>>
             ELSE CASE call.pc = "hasTable" ->
                         /\ diagnostics' = [diagnostics EXCEPT
                                              ![i].tableExists = exists,
                                              ![i].pc = "release"]
                         /\ UNCHANGED <<store, errorLog, now>>
                    [] call.pc = "release" /\ ~ call.tableExists ->
                         /\ diagnostics' = [diagnostics EXCEPT
                               ![i].pc = "returned",
                               ![i].result = ConnectionResult(TRUE, FALSE, FALSE,
                                   "Table \"audit_logs\" does not exist")]
                         /\ UNCHANGED <<store, errorLog, now>>
                    [] call.pc = "release" /\ call.tableExists ->
                         /\ diagnostics' = [diagnostics EXCEPT
                                              ![i].testData = testData(t),
                                              ![i].pc = "save"]
                         /\ now' = t
                         /\ UNCHANGED <<store, errorLog>>
                    [] call.pc = "save" ->
                         /\ store' = Append(store,
                                [id |-> NextId, data |-> call.testData])
                         /\ diagnostics' = [diagnostics EXCEPT
                                              ![i].testLog = NextId,
                                              ![i].written = TRUE,
                                              ![i].pc = "delete"]
                         /\ UNCHANGED <<errorLog, now>>
                    [] call.pc = "delete" ->
                         /\ store' = deleteById(store, call.testLog)
                         /\ diagnostics' = [diagnostics EXCEPT
                               ![i].pc = "returned",
                               ![i].result = ConnectionResult(TRUE, TRUE, TRUE,
                                                              "undefined")]
                         /\ UNCHANGED <<errorLog, now>>
    /\ UNCHANGED <<statistics, options, reqs, immediates, attempts, cleanups, queries>>

(***************************************************************************)
(* Inputs: installations, handlers, requests, handler results.             *)
(***************************************************************************)
Health == <<"/", "h", "e", "a", "l", "t", "h">>
Health2 == <<"/", "h", "e", "a", "l", "t", "h", "2">>
ApiX == <<"/", "a", "p", "i", "/", "x">>
ApiV2 == <<"/", "a", "p", "i", "v", "2">>
Users == <<"/", "u", "s", "e", "r", "s">>

ApiStar == <<"/", "a", "p", "i", "/", "*">>
\* a pattern whose regular expression does not compile
BadStar == <<"(", "*">>

Options(routes, logRequestBody, logResponseBody, tokenX, userIdX, userEmailX) ==
    [excludeRoutes |-> routes,
     logRequestBody |-> logRequestBody,
     logResponseBody |-> logResponseBody,
     customTokenExtractor |-> tokenX,
     customUserIdExtractor |-> userIdX,
     customUserEmailExtractor |-> userEmailX]

Unmarked == [marked |-> FALSE, options |-> NoAuditOptions]

Marked(logRequestBody, logResponseBody) ==
    [marked |-> TRUE,
     options |-> [serviceName |-> "UsersService", description |-> "Create user",
                  logRequestBody |-> logRequestBody,
                  logResponseBody |-> logResponseBody]]

BearerA == <<"B", "e", "a", "r", "e", "r", " ", "a">>
Json == <<"j", "s", "o", "n">>
Curl == <<"c", "u", "r", "l">>
Addr == <<"1", ".", "1">>

Request(url, headers, query) ==
    [method |-> "POST", url |-> url, headers |-> headers, query |-> query,
     body |-> "body", remoteAddress |-> Addr, ip |-> Addr]

HeadersBearer ==
    ("authorization" :> BearerA) @@ ("content-type" :> Json) @@ ("user-agent" :> Curl)

\* what a handler can raise: an HttpException-like error, a plain Error
HandlerErrors ==
    {[id |-> <<"handler", 0>>, hasStatus |-> TRUE, status |-> 404, message |-> "Not Found"],
     [id |-> <<"handler", 0>>, hasStatus |-> FALSE, status |-> 0, message |-> "boom"]}

(***************************************************************************)
(* Spec: the life of audited and unaudited requests in flight together,    *)
(* with every shape of handler stream and every outcome of the store.      *)
(***************************************************************************)
SpecOptions ==
    {Options(<<Health, ApiStar>>, "false", g, "none", "none", "none") :
        g \in {"true", "false"}}

SpecEnv ==
    [handlers |-> {Unmarked, Marked("true", "undefined")},
     requests |-> {Request(u, HeadersBearer, EmptyMap) : u \in {Health, Users}},
     values |-> {"created"},
     statusCodes |-> {201},
     errors |-> HandlerErrors,
     createThrows |-> BOOLEAN,
     saveRejects |-> BOOLEAN,
     maxRequests |-> MaxRequests,
     maxEvents |-> MaxEvents,
     maxClock |-> MaxClock,
     clockSetBack |-> FALSE]

Init == InitWith(SpecOptions)

Next == NextIn(SpecEnv)

Spec == Init /\ [][Next]_vars

(***************************************************************************)
(* SpecEntry: one call of intercept() under every kind of installation:    *)
(* exclusion lists (unset, empty, usual, with a pattern that does not      *)
(* compile) and custom extractors (absent, returning, throwing).           *)
(***************************************************************************)
MaxSoloRequests == 1

HeadersCustom ==
    ("my-custom-token" :> <<"t">>) @@ ("content-type" :> Json)

EntryExtractors ==
    {<<"none", "none", "none">>, <<"header", "custom", "custom">>,
     <<"throws", "none", "none">>, <<"none", "throws", "none">>,
     <<"none", "none", "throws">>}

EntryOptions ==
    {Options(routes, "true", "false", x[1], x[2], x[3]) :
        routes \in {NoRoutes, <<>>, <<Health, ApiStar>>, <<BadStar, Health>>},
        x \in EntryExtractors}

EntryEnv ==
    [handlers |-> {Unmarked, Marked("undefined", "undefined")},
     requests |-> {Request(u, h, EmptyMap) :
                      u \in {Health, Health2, ApiX, ApiV2, Users},
                      h \in {HeadersBearer, HeadersCustom}},
     values |-> {"created"},
     statusCodes |-> {201},
     errors |-> HandlerErrors,
     createThrows |-> BOOLEAN,
     saveRejects |-> BOOLEAN,
     maxRequests |-> MaxSoloRequests,
     maxEvents |-> MaxEvents,
     maxClock |-> 0,
     clockSetBack |-> FALSE]

InitEntry == InitWith(EntryOptions)

NextEntry == NextIn(EntryEnv)

SpecEntry == InitEntry /\ [][NextEntry]_vars

(***************************************************************************)
(* SpecPolicy: one audited request under every combination of the per-call *)
(* and the global logRequestBody / logResponseBody.                        *)
(***************************************************************************)
PolicyOptions ==
    {Options(<<>>, g1, g2, "none", "none", "none") : g1 \in Tri, g2 \in Tri}

PolicyEnv ==
    [handlers |-> {Marked(p1, p2) : p1 \in Tri, p2 \in Tri},
     requests |-> {Request(Users, HeadersBearer, EmptyMap)},
     values |-> {"created"},
     statusCodes |-> {201},
     errors |-> HandlerErrors,
     createThrows |-> {FALSE},
     saveRejects |-> {FALSE},
     maxRequests |-> MaxSoloRequests,
     maxEvents |-> MaxEvents,
     maxClock |-> 0,
     clockSetBack |-> FALSE]

InitPolicy == InitWith(PolicyOptions)

NextPolicy == NextIn(PolicyEnv)

SpecPolicy == InitPolicy /\ [][NextPolicy]_vars

(***************************************************************************)
(* SpecHeaders: one audited request with request-body logging on, for      *)
(* every header map over a few names; a header can be absent, empty or     *)
(* carry a value.  Names are lower-case, as Node delivers them.            *)
(***************************************************************************)
Secret == <<"s">>

HeaderMaps ==
    UNION {[names -> {<<>>, Secret}] :
              names \in SUBSET {"authorization", "cookie", "x-api-token", "content-type"}}

\* {authorization: "Bearer xyz", "content-type": "json"}
BearerXyz == <<"B", "e", "a", "r", "e", "r", " ", "x", "y", "z">>
HeadersExample == ("authorization" :> BearerXyz) @@ ("content-type" :> Json)

HeadersOptions == {Options(<<>>, "true", "false", "none", "none", "none")}

HeadersEnv ==
    [handlers |-> {Marked("undefined", "undefined")},
     requests |-> {Request(Users, h, EmptyMap) : h \in HeaderMaps \cup {HeadersExample}},
     values |-> {"created"},
     statusCodes |-> {201},
     errors |-> HandlerErrors,
     createThrows |-> {FALSE},
     saveRejects |-> {FALSE},
     maxRequests |-> MaxSoloRequests,
     maxEvents |-> MaxEvents,
     maxClock |-> 0,
     clockSetBack |-> FALSE]

InitHeaders == InitWith(HeadersOptions)

NextHeaders == NextIn(HeadersEnv)

SpecHeaders == InitHeaders /\ [][NextHeaders]_vars

(***************************************************************************)
(* SpecPresence: one audited request under every combination of the        *)
(* per-call and the global policy, with a handler that returns a value or  *)
(* returns nothing (undefined).                                            *)
(***************************************************************************)
PresenceEnv ==
    [handlers |-> {Marked(p1, p2) : p1 \in Tri, p2 \in Tri},
     requests |-> {Request(Users, HeadersBearer, ("page" :> <<"1">>))},
     values |-> {"created", "undefined"},
     statusCodes |-> {201},
     errors |-> HandlerErrors,
     createThrows |-> {FALSE},
     saveRejects |-> {FALSE},
     maxRequests |-> MaxSoloRequests,
     maxEvents |-> MaxEvents,
     maxClock |-> 0,
     clockSetBack |-> FALSE]

InitPresence == InitWith(PolicyOptions)

NextPresence == NextIn(PresenceEnv)

SpecPresence == InitPresence /\ [][NextPresence]_vars

(***************************************************************************)
(* SpecToken: one audited request for every choice of token sources: an    *)
(* Authorization header (absent, empty, Bearer in two spellings, not       *)
(* Bearer) and up to MaxSources of the other headers and query parameters, *)
(* each empty or carrying a value of its own.                              *)
(***************************************************************************)
MaxSources == 2
MaxSoloEvents == 1

\* Authorization values: "Bearer a", "bEARer  b", "k" and "Bearerx"
BearerSpelled == <<"b", "E", "A", "R", "e", "r", " ", " ", "b">>
RawKey == <<"k">>
BearerGlued == <<"B", "e", "a", "r", "e", "r", "x">>

AuthorizationValues == {<<>>, BearerA, BearerSpelled, RawKey, BearerGlued}

\* the value a header or query parameter carries when it is not empty
SourceValue(name) ==
    CASE name = "x-api-token" -> <<"1">>
      [] name = "x-auth-token" -> <<"2">>
      [] name = "x-access-token" -> <<"3">>
      [] name = "api-key" -> <<"4">>
      [] name = "apikey" -> <<"5">>

\* the value a query parameter carries when it is not empty
QueryValue(name) ==
    CASE name = "token" -> <<"z">>
      [] name = "apikey" -> <<"6">>
      [] name = "api_key" -> <<"7">>
      [] name = "access_token" -> <<"8">>

\* a header map over the given names, those of empties left empty
SourceHeaderMap(names, empties) ==
    [n \in names |-> IF n \in empties THEN <<>> ELSE SourceValue(n)]

\* a query over the given names, those of empties left empty
SourceQueryMap(names, empties) ==
    [n \in names |-> IF n \in empties THEN <<>> ELSE QueryValue(n)]

\* "apikey" is a header name and a query parameter: q: marks the parameter
TokenSources ==
    {"x-api-token", "x-auth-token", "x-access-token", "api-key", "apikey",
     "q:token", "q:apikey", "q:api_key", "q:access_token"}

SourceHeaders(chosen) == chosen \cap Range(customHeaders)

SourceQuery(chosen) ==
    {n \in Range(queryParams) : IF n = "apikey" THEN "q:apikey" \in chosen
                                ELSE ("q:token" \in chosen /\ n = "token")
                                     \/ ("q:api_key" \in chosen /\ n = "api_key")
                                     \/ ("q:access_token" \in chosen /\ n = "access_token")}

TokenRequests ==
    {Request(Users,
             (IF auth = {} THEN EmptyMap
              ELSE ("authorization" :> (CHOOSE a \in auth : TRUE)))
                 @@ SourceHeaderMap(SourceHeaders(chosen), empties),
             SourceQueryMap(SourceQuery(chosen), empties)) :
        auth \in {{}} \cup {{a} : a \in AuthorizationValues},
        chosen \in {c \in SUBSET TokenSources : Cardinality(c) <= MaxSources},
        empties \in SUBSET {"x-api-token", "token"}}

TokenOptions == {Options(<<>>, "false", "false", "none", "none", "none")}

TokenEnv ==
    [handlers |-> {Marked("undefined", "undefined")},
     requests |-> TokenRequests,
     values |-> {"created"},
     statusCodes |-> {201},
     errors |-> {CHOOSE e \in HandlerErrors : e.hasStatus},
     createThrows |-> {FALSE},
     saveRejects |-> {FALSE},
     maxRequests |-> MaxSoloRequests,
     maxEvents |-> MaxSoloEvents,
     maxClock |-> 0,
     clockSetBack |-> FALSE]

InitToken == InitWith(TokenOptions)

NextToken == NextIn(TokenEnv)

SpecToken == InitToken /\ [][NextToken]_vars

(***************************************************************************)
(* SpecJwt: one audited request whose bearer token is a JWT: header,       *)
(* payload and signature joined by dots, the payload the base64url text of *)
(* a JSON object of up to MaxMembers members with different names.         *)
(***************************************************************************)
MaxMembers == 2

Base64UrlChunks ==
    {"b64:{", "b64:}", "b64:sub:u1", "b64:userId:u2", "b64:id:u3", "b64:user_id:u4",
     "b64:email:e1", "b64:user_email:e2", "b64:userEmail:e3", "b64:sub:", "b64:email:",
     "b64:null", "b64:5"}

\* the base64url text of a JSON text
Base64UrlEncode(text) ==
    [i \in 1..Len(text) |-> CHOOSE c \in Base64UrlChunks : Base64UrlChunk(c) = text[i]]

\* JSON.stringify of an object with the given members
JsonObject(members) == <<"{">> \o members \o <<"}">>

\* member lists of up to n members, no name twice
MemberLists(n) ==
    UNION {{ms \in [1..k -> Members] :
               \A i, j \in 1..k : i # j => MemberKey(ms[i]) # MemberKey(ms[j])} :
           k \in 0..n}

Jwt(members) == <<"h", ".">> \o Base64UrlEncode(JsonObject(members)) \o <<".", "s">>

Bearer(token) == <<"B", "e", "a", "r", "e", "r", " ">> \o token

JwtRequests ==
    {Request(Users, ("authorization" :> Bearer(Jwt(ms))), EmptyMap) :
        ms \in MemberLists(MaxMembers)}

JwtEnv ==
    [handlers |-> {Marked("undefined", "undefined")},
     requests |-> JwtRequests,
     values |-> {"created"},
     statusCodes |-> {201},
     errors |-> {CHOOSE e \in HandlerErrors : e.hasStatus},
     createThrows |-> {FALSE},
     saveRejects |-> {FALSE},
     maxRequests |-> MaxSoloRequests,
     maxEvents |-> MaxSoloEvents,
     maxClock |-> 0,
     clockSetBack |-> FALSE]

InitJwt == InitWith(TokenOptions)

NextJwt == NextIn(JwtEnv)

SpecJwt == InitJwt /\ [][NextJwt]_vars

(***************************************************************************)
(* SpecCustom: one audited request under every combination of configured   *)
(* extractors (absent, returning a value, returning nothing), with and     *)
(* without an Authorization bearer token and a my-custom-token header,     *)
(* both JWTs the built-in decoders can read.                               *)
(***************************************************************************)
CustomOptions ==
    {Options(<<>>, "false", "false", x, y, z) :
        x \in {"none", "header"},
        y \in {"none", "custom", "nothing"},
        z \in {"none", "custom", "nothing"}}

CustomRequests ==
    {Request(Users,
             (IF a THEN ("authorization" :> Bearer(Jwt(<<"sub:u1", "email:e1">>)))
              ELSE EmptyMap)
             @@ (IF c THEN ("my-custom-token" :> Jwt(<<"userId:u2", "user_email:e2">>))
                 ELSE EmptyMap),
             EmptyMap) :
        a \in BOOLEAN, c \in BOOLEAN}

CustomEnv ==
    [handlers |-> {Marked("undefined", "undefined")},
     requests |-> CustomRequests,
     values |-> {"created"},
     statusCodes |-> {201},
     errors |-> {CHOOSE e \in HandlerErrors : e.hasStatus},
     createThrows |-> {FALSE},
     saveRejects |-> {FALSE},
     maxRequests |-> MaxSoloRequests,
     maxEvents |-> MaxSoloEvents,
     maxClock |-> 0,
     clockSetBack |-> FALSE]

InitCustom == InitWith(CustomOptions)

NextCustom == NextIn(CustomEnv)

SpecCustom == InitCustom /\ [][NextCustom]_vars

(***************************************************************************)
(* SpecMutable: one audited request with request-body logging on, whose    *)
(* handler may change the request's body, query or headers in place.       *)
(***************************************************************************)
MutableEnv ==
    [handlers |-> {Marked("true", "undefined")},
     requests |-> {Request(Users, HeadersBearer, ("page" :> <<"1">>))},
     values |-> {"created"},
     statusCodes |-> {201},
     errors |-> HandlerErrors,
     createThrows |-> {FALSE},
     saveRejects |-> {FALSE},
     mutations |-> {"body", "query", "headers"},
     maxRequests |-> MaxSoloRequests,
     maxEvents |-> MaxEvents,
     maxClock |-> MaxClock,
     clockSetBack |-> FALSE]

InitMutable == InitWith(TokenOptions)

NextMutable == NextIn(MutableEnv) \/ HandlerMutates(MutableEnv)

SpecMutable == InitMutable /\ [][NextMutable]_vars

(***************************************************************************)
(* SpecPair: two audited requests in flight together, with request and     *)
(* response logging on; the two can differ in every field.                 *)
(***************************************************************************)
PairRequests ==
    {Request(Users, HeadersBearer, EmptyMap),
     [Request(ApiV2,
              ("authorization" :> Bearer(Jwt(<<"sub:u1", "email:e1">>)))
                  @@ ("x-real-ip" :> <<"2", ".", "2">>),
              ("page" :> <<"1">>))
         EXCEPT !.method = "PUT", !.body = "other"]}

PairEnv ==
    [handlers |-> {Marked("true", "true")},
     requests |-> PairRequests,
     values |-> {"created"},
     statusCodes |-> {201},
     errors |-> {CHOOSE e \in HandlerErrors : e.hasStatus},
     createThrows |-> {FALSE},
     saveRejects |-> BOOLEAN,
     maxRequests |-> MaxRequests,
     maxEvents |-> MaxEvents,
     maxClock |-> 0,
     clockSetBack |-> FALSE]

InitPair == InitWith(TokenOptions)

NextPair == NextIn(PairEnv)

SpecPair == InitPair /\ [][NextPair]_vars

(***************************************************************************)
(* SpecCleanup: audited requests on different days and calls of            *)
(* cleanupOldAuditLogs in between, the DELETE succeeding or failing.       *)
(***************************************************************************)
MaxDays == 2
MaxRetentionDays == 1
MaxCleanups == 1

CleanupEnv ==
    [handlers |-> {Marked("undefined", "undefined")},
     requests |-> {Request(Users, HeadersBearer, EmptyMap)},
     values |-> {"created"},
     statusCodes |-> {201},
     errors |-> {CHOOSE e \in HandlerErrors : e.hasStatus},
     createThrows |-> {FALSE},
     saveRejects |-> BOOLEAN,
     retentionDays |-> 0..MaxRetentionDays,
     deleteRejects |-> BOOLEAN,
     maxCleanups |-> MaxCleanups,
     maxRequests |-> MaxRequests,
     maxEvents |-> MaxSoloEvents,
     maxClock |-> MaxDays,
     clockSetBack |-> FALSE]

InitCleanup == InitWith(TokenOptions)

NextCleanup ==
    \/ NextIn(CleanupEnv)
    \/ cleanupOldAuditLogs(CleanupEnv)
    \/ DeleteSettles(CleanupEnv)

SpecCleanup == InitCleanup /\ [][NextCleanup]_vars

(***************************************************************************)
(* SpecQuery: two audited requests that differ in every field, succeeding  *)
(* or failing, at different times, and calls of getAuditLogs with filters  *)
(* and paging over what has reached the store.                             *)
(***************************************************************************)
MaxQueries == 1

\* an endpoint filter with a LIKE wildcard: '/api_2'
ApiUnderscore == <<"/", "a", "p", "i", "_", "2">>

QueryFilters ==
    {NoFilters,
     [NoFilters EXCEPT !.userId = <<"u", "1">>],
     [NoFilters EXCEPT !.statusCode = 404],
     [NoFilters EXCEPT !.httpMethod = "PUT", !.serviceName = "UsersService"],
     [NoFilters EXCEPT !.endpoint = <<"u", "s", "e">>],
     [NoFilters EXCEPT !.endpoint = ApiUnderscore],
     [NoFilters EXCEPT !.startDate = Date(1)],
     [NoFilters EXCEPT !.endDate = Date(0), !.statusCode = 201]}

QueryOptions ==
    {NoQueryOptions,
     [NoQueryOptions EXCEPT !.page = 1, !.limit = 1],
     [NoQueryOptions EXCEPT !.page = 2, !.limit = 1],
     [NoQueryOptions EXCEPT !.sortBy = "statusCode", !.sortOrder = "ASC"],
     [NoQueryOptions EXCEPT !.sortOrder = "ASC", !.limit = 1]}

QueryEnv ==
    [handlers |-> {Marked("undefined", "undefined")},
     requests |-> PairRequests,
     values |-> {"created"},
     statusCodes |-> {201},
     errors |-> {CHOOSE e \in HandlerErrors : e.hasStatus},
     createThrows |-> {FALSE},
     saveRejects |-> {FALSE},
     filters |-> QueryFilters,
     queryOptions |-> QueryOptions,
     maxQueries |-> MaxQueries,
     maxRequests |-> MaxRequests,
     maxEvents |-> MaxSoloEvents,
     maxClock |-> MaxClock,
     clockSetBack |-> FALSE]

InitQuery == InitWith(TokenOptions)

NextQuery == NextIn(QueryEnv) \/ getAuditLogs(QueryEnv)

SpecQuery == InitQuery /\ [][NextQuery]_vars

(***************************************************************************)
(* Properties.                                                             *)
(***************************************************************************)
\* the writes scheduled for request r: callbacks still queued and calls of
\* saveAuditLog already made
PendingFor(r) == {i \in 1..Len(immediates) : immediates[i].req = r}
AttemptsFor(r) == {k \in DOMAIN attempts : k[1] = r}
WritesFor(r) == Cardinality(PendingFor(r)) + Cardinality(AttemptsFor(r))

\* the request is audited: marked handler, intercept() returned the piped stream
Audited(r) == reqs[r].state = "CAPTURING"

\* C1: for every audited request at most one audit record is composed and handed
\* to saveAuditLog, whatever the handler's stream does (one value, several
\* values, a value followed by an error, an error alone).
C1_AtMostOneWritePerRequest ==
    \A r \in 1..Len(reqs) : Audited(r) => WritesFor(r) <= 1

\* C4: when the handler of an audited request fails, the caller observes the very
\* error the handler raised (same identity, status and message), and nothing else
\* than what the handler emitted.
C4_ErrorReRaisedUnchanged ==
    \A r \in 1..Len(reqs) :
        Audited(r) =>
            /\ Len(reqs[r].observed) = Len(reqs[r].emitted)
            /\ \A i \in 1..Len(reqs[r].emitted) :
                  reqs[r].emitted[i].kind = "error" =>
                      /\ reqs[r].observed[i].kind = "error"
                      /\ reqs[r].observed[i].error = reqs[r].emitted[i].error

\* an audited handler failed with an error carrying a status, the caller has
\* observed it and the failure path has made its call of saveAuditLog
C4_Witness ==
    \E k \in DOMAIN attempts :
        /\ attempts[k].path = "catchError"
        /\ reqs[k[1]].emitted[k[2]].error.hasStatus
        /\ reqs[k[1]].observed[k[2]].error.id = <<"handler", k[1]>>

\* the effective logResponseBody of request r, spelled out: the per-call value
\* when given, otherwise the global one when given, otherwise false
ResponseBodyLogged(r) ==
    \/ reqs[r].handler.options.logResponseBody = "true"
    \/ /\ reqs[r].handler.options.logResponseBody = "undefined"
       /\ options.logResponseBody = "true"

\* the fields of a record that do not depend on how the handler settled
RequestFields(d) ==
    <<d.timestamp, d.userId, d.userEmail, d.httpMethod, d.endpoint, d.serviceName,
      d.actionDescription, d.requestData, d.userAgent, d.ipAddress, d.token>>

\* C5: a handler of an audited request that throws produces exactly one record;
\* its statusCode is the error's status when it carries one and 500 otherwise,
\* its responseData is the error's message when the effective logResponseBody is
\* true and absent otherwise, and its other fields are those of the request as
\* captured at entry, the same a record of the success path carries.
C5_ErrorPathRecord ==
    /\ \A r \in 1..Len(reqs) :
          (Audited(r) /\ Len(reqs[r].emitted) = 1 /\ reqs[r].emitted[1].kind = "error")
              => WritesFor(r) = 1
    /\ \A k \in DOMAIN attempts :
          attempts[k].path = "catchError" =>
              LET r == k[1]
                  e == reqs[r].emitted[k[2]].error
                  d == attempts[k].data
              IN  /\ d.statusCode = (IF e.hasStatus THEN e.status ELSE 500)
                  /\ d.responseData = (IF ResponseBodyLogged(r) THEN e.message
                                       ELSE "undefined")
                  /\ d.timestamp = reqs[r].timestamp
                  /\ d.httpMethod = reqs[r].request.method
                  /\ d.endpoint = reqs[r].request.url
                  /\ d.token = reqs[r].tokenInfo.token
                  /\ d.userId = reqs[r].tokenInfo.userId
                  /\ d.userEmail = reqs[r].tokenInfo.userEmail
                  /\ \A j \in AttemptsFor(r) :
                        RequestFields(attempts[j].data) = RequestFields(d)

\* a handler that threw an error with a status, alone, under response-body
\* logging: its one record is composed and carries status and message
C5_Witness ==
    \E k \in DOMAIN attempts :
        /\ k[2] = 1
        /\ attempts[k].path = "catchError"
        /\ attempts[k].data.statusCode = 404
        /\ attempts[k].data.responseData = "Not Found"

\* C6: the audit write never runs in the turn of the event loop in which the
\* handler settled: when createAuditLog starts, the handler's result or error has
\* already been handed to the framework, and the handoff waits neither for the
\* start nor for the completion of the insert.
C6_WriteDeferredAfterHandoff ==
    /\ \A k \in DOMAIN attempts : attempts[k].deferred /\ attempts[k].handed
    /\ \A i \in 1..Len(immediates) :
          Len(reqs[immediates[i].req].observed) >= immediates[i].event
    /\ \A k \in DOMAIN attempts : Len(reqs[k[1]].observed) >= k[2]

\* an insert is in flight for a notification the framework already has
C6_Witness ==
    \E k \in DOMAIN attempts :
        /\ attempts[k].outcome = "saving"
        /\ Len(reqs[k[1]].observed) >= k[2]

\* the attempts the store failed
Failed(k) == attempts[k].outcome \in {"createThrew", "saveRejected"}

\* C7: when repository.create throws or repository.save rejects, saveAuditLog
\* still resolves and never rejects, the failure is logged once, the insert is
\* not attempted again and leaves no row, and the caller of the endpoint has
\* received exactly what the handler emitted.
C7_StoreFailureContained ==
    /\ \A k \in DOMAIN attempts :
          /\ attempts[k].result # "rejected"
          /\ attempts[k].creates = 1
          /\ attempts[k].saves <= 1
          /\ Failed(k) =>
                /\ attempts[k].result = "resolved"
                /\ attempts[k].row = 0
                /\ reqs[k[1]].observed = reqs[k[1]].emitted
    /\ errorLog = Cardinality({k \in DOMAIN attempts : Failed(k)})
    /\ Len(store) = Cardinality({k \in DOMAIN attempts : attempts[k].outcome = "saved"})

\* a save was rejected and a create threw, both contained
C7_Witness ==
    /\ \E k \in DOMAIN attempts : attempts[k].outcome = "saveRejected"
    /\ \E k \in DOMAIN attempts : attempts[k].outcome = "createThrew"

\* the store rows that stem from request r
RowsFor(r) == {i \in 1..Len(store) : \E k \in AttemptsFor(r) : attempts[k].row = i}

\* C2: for a request whose handler carries no @AuditLog marker, intercept never
\* extracts anything nor schedules a write, no record reaches the store, and the
\* handler's result or error is returned untouched, whatever excludeRoutes and
\* the other global options are.
C2_UnmarkedNeverAudited ==
    /\ \A r \in 1..Len(reqs) :
          ~ reqs[r].handler.marked =>
              /\ reqs[r].state = "NOT_AUDITED"
              /\ reqs[r].handlerCalls = 1
              /\ ~ reqs[r].extracted
              /\ WritesFor(r) = 0
              /\ RowsFor(r) = {}
              /\ reqs[r].observed = reqs[r].emitted
    /\ \A i \in 1..Len(store) :
          \E r \in 1..Len(reqs) : reqs[r].handler.marked /\ i \in RowsFor(r)

\* an unmarked handler has failed and its error was passed on, in an
\* installation whose exclusion list does not compile and whose token extractor
\* throws
C2_Witness ==
    \E r \in 1..Len(reqs) :
        /\ ~ reqs[r].handler.marked
        /\ options.excludeRoutes = <<BadStar, Health>>
        /\ options.customTokenExtractor = "throws"
        /\ Len(reqs[r].observed) = 1
        /\ reqs[r].observed[1].kind = "error"

\* the pattern, taken alone, excludes the URL
PatternExcludes(route, url) ==
    IF Includes(route, "*")
    THEN ~ RegExpThrows(ReplaceStar(route)) /\ RegExpTest(ReplaceStar(route), url)
    ELSE StartsWith(url, route)

MatchesSomePattern(url) ==
    /\ options.excludeRoutes # NoRoutes
    /\ \E i \in 1..Len(options.excludeRoutes) :
          PatternExcludes(options.excludeRoutes[i], url)

\* C3: for a request to a marked handler whose URL matches at least one
\* excludeRoutes pattern, no record is produced, the handler is invoked exactly
\* once and its result or error passes through unobserved (no extraction, no
\* write scheduled).
C3_ExcludedPassesThrough ==
    \A r \in 1..Len(reqs) :
        (reqs[r].handler.marked /\ MatchesSomePattern(reqs[r].request.url)) =>
            /\ reqs[r].state = "NOT_AUDITED"
            /\ reqs[r].handlerCalls = 1
            /\ ~ reqs[r].extracted
            /\ WritesFor(r) = 0
            /\ reqs[r].observed = reqs[r].emitted

\* C8: an error raised while computing audit fields for a marked request (route
\* exclusion, request info, token location, custom extractors) never changes what
\* the caller observes: the handler is still invoked and the caller receives
\* exactly the handler's own result or error.
C8_ExtractionErrorsIsolated ==
    \A r \in 1..Len(reqs) :
        reqs[r].handler.marked =>
            /\ reqs[r].handlerCalls = 1
            /\ reqs[r].observed = reqs[r].emitted

\* C9: in every record handed to the store with requestData present, every header
\* of requestData.headers whose name, as given or lower-cased, is a sensitive one
\* carries "[REDACTED]".
C9_SensitiveHeadersRedacted ==
    \A k \in DOMAIN attempts :
        attempts[k].data.requestData.present =>
            \A h \in DOMAIN attempts[k].data.requestData.headers :
                (h \in Range(sensitiveHeaders) \/ toLowerCase(h) \in Range(sensitiveHeaders))
                    => attempts[k].data.requestData.headers[h] = Redacted

\* per-call value p over global value g: p when given, else g when given, else false
Effective(p, g) == p = "true" \/ (p = "undefined" /\ g = "true")

\* C10: the effective logRequestBody (likewise logResponseBody) used when composing
\* a record is the per-call @AuditLog value when one is given, otherwise the global
\* option when one is given, otherwise false, for all combinations of unset, true
\* and false at the two levels.
C10_EffectivePolicy ==
    \A k \in DOMAIN attempts :
        LET per == reqs[k[1]].handler.options
            d == attempts[k].data
        IN  /\ d.requestData.present = Effective(per.logRequestBody, options.logRequestBody)
            /\ (d.responseData # "undefined")
                   = Effective(per.logResponseBody, options.logResponseBody)

\* per-call true over global false captures the request, while per-call false over
\* global true leaves the response out
C10_Witness ==
    \E k \in DOMAIN attempts :
        /\ reqs[k[1]].handler.options.logRequestBody = "true"
        /\ options.logRequestBody = "false"
        /\ attempts[k].data.requestData.present
        /\ reqs[k[1]].handler.options.logResponseBody = "false"
        /\ options.logResponseBody = "true"
        /\ attempts[k].data.responseData = "undefined"

\* C11: in every composed record requestData is present exactly when the effective
\* logRequestBody is true, and then holds the body, the query and the headers of
\* the request; responseData is present only when the effective logResponseBody is
\* true; a field whose flag is false is absent (undefined), not an empty object
\* or an empty string.
C11_BodiesPresentOnlyWhenEnabled ==
    \A k \in DOMAIN attempts :
        LET per == reqs[k[1]].handler.options
            d == attempts[k].data
            info == reqs[k[1]].requestInfo
        IN  /\ d.requestData.present
                  <=> Effective(per.logRequestBody, options.logRequestBody)
            /\ d.requestData.present =>
                  /\ d.requestData.body = info.body
                  /\ d.requestData.query = info.query
                  /\ DOMAIN d.requestData.headers = DOMAIN info.headers
            /\ ~ Effective(per.logResponseBody, options.logResponseBody)
                  => d.responseData = "undefined"

\* a record without requestData although the handler's response is logged, and a
\* record whose responseData is absent under response logging because the handler
\* returned nothing
C11_Witness ==
    /\ \E k \in DOMAIN attempts :
          /\ ~ attempts[k].data.requestData.present
          /\ attempts[k].data.responseData = "created"
    /\ \E k \in DOMAIN attempts :
          /\ Effective(reqs[k[1]].handler.options.logResponseBody, options.logResponseBody)
          /\ attempts[k].data.responseData = "undefined"

\* a source is present when it carries a value: the header or parameter exists
\* and is not empty
Carried(map, name) == name \in DOMAIN map /\ map[name] # <<>>

\* the value after a case-insensitive "Bearer" and the blanks that follow it, or
\* the raw value when the header is not of that form
AfterBearer(v) ==
    LET ends == {k \in 7..(Len(v) - 1) :
                    /\ LowerSeq(SubSeq(v, 1, 6)) = <<"b", "e", "a", "r", "e", "r">>
                    /\ \A j \in 7..k : v[j] = " "
                    /\ v[k + 1] # " "}
    IN  IF ends = {} THEN v
        ELSE SubSeq(v, (CHOOSE k \in ends : TRUE) + 1, Len(v))

\* the first name of the list that the map carries a value for, or Undefined
FirstCarried(map, names) ==
    LET at == {i \in 1..Len(names) : Carried(map, names[i])} IN
    IF at = {} THEN Undefined
    ELSE map[names[CHOOSE i \in at : \A j \in at : i <= j]]

\* the token the stated order of sources yields
TokenByOrder(request) ==
    IF Carried(request.headers, "authorization")
    THEN AfterBearer(request.headers["authorization"])
    ELSE IF FirstCarried(request.headers,
                <<"x-api-token", "x-auth-token", "x-access-token", "api-key", "apikey">>)
            # Undefined
    THEN FirstCarried(request.headers,
             <<"x-api-token", "x-auth-token", "x-access-token", "api-key", "apikey">>)
    ELSE FirstCarried(request.query, <<"token", "apikey", "api_key", "access_token">>)

\* C12: without a custom token extractor the token of an audited request, and of
\* every record composed for it, is the first source that carries a value in the
\* order Authorization header (the value after a case-insensitive Bearer prefix,
\* else the raw value), x-api-token, x-auth-token, x-access-token, api-key, apikey
\* headers, token, apikey, api_key, access_token query parameters; it is absent
\* when no source carries a value.
C12_TokenSourceOrder ==
    /\ \A r \in 1..Len(reqs) :
          (Audited(r) /\ options.customTokenExtractor = "none") =>
              reqs[r].tokenInfo.token = TokenByOrder(reqs[r].request)
    /\ \A k \in DOMAIN attempts :
          options.customTokenExtractor = "none" =>
              attempts[k].data.token = TokenByOrder(reqs[k[1]].request)

\* a record for a request with Authorization: Bearer a and token=z carries a
C12_Witness ==
    \E k \in DOMAIN attempts :
        LET request == reqs[k[1]].request IN
        /\ Carried(request.headers, "authorization")
        /\ request.headers["authorization"] = BearerA
        /\ Carried(request.query, "token")
        /\ attempts[k].data.token = <<"a">>

\* the value of the first of the names for which the members hold a non-empty
\* value, or Undefined
FirstPresent(members, names) ==
    LET has(n) == \E i \in 1..Len(members) :
                      MemberKey(members[i]) = n /\ MemberValue(members[i]) # <<>>
        at == {i \in 1..Len(names) : has(names[i])}
    IN  IF at = {} THEN Undefined
        ELSE LET n == names[CHOOSE i \in at : \A j \in at : i <= j] IN
             MemberValue(members[CHOOSE i \in 1..Len(members) : MemberKey(members[i]) = n])

\* C13: for a token of exactly three dot-separated parts whose middle part is the
\* base64url text of a JSON object, the userId is the value of the first of sub,
\* userId, id, user_id the payload holds a value for, and the userEmail that of the
\* first of email, user_email, userEmail; each is absent when the payload holds
\* none of its fields.
C13_JwtFieldPriority ==
    \A r \in 1..Len(reqs) :
        \A ms \in MemberLists(MaxMembers) :
            (/\ Audited(r)
             /\ "authorization" \in DOMAIN reqs[r].request.headers
             /\ reqs[r].request.headers["authorization"] = Bearer(Jwt(ms))) =>
                /\ reqs[r].tokenInfo.token = Jwt(ms)
                /\ reqs[r].tokenInfo.userId
                       = FirstPresent(ms, <<"sub", "userId", "id", "user_id">>)
                /\ reqs[r].tokenInfo.userEmail
                       = FirstPresent(ms, <<"email", "user_email", "userEmail">>)
                /\ \A k \in AttemptsFor(r) :
                       /\ attempts[k].data.userId = reqs[r].tokenInfo.userId
                       /\ attempts[k].data.userEmail = reqs[r].tokenInfo.userEmail

\* a record for the payload {"sub":"u1","email":"e1"} carries u1 and e1
C13_Witness ==
    \E k \in DOMAIN attempts :
        /\ reqs[k[1]].request.headers["authorization"]
               = Bearer(Jwt(<<"sub:u1", "email:e1">>))
        /\ attempts[k].data.userId = <<"u", "1">>
        /\ attempts[k].data.userEmail = <<"e", "1">>

\* what a configured identity extractor returns for a token
ReturnOf(option, own) == IF option = "nothing" THEN Undefined ELSE own

\* C14: with customTokenExtractor configured the token is exactly its return value
\* and the built-in header and query lookup is not consulted, even when it returns
\* nothing; with customUserIdExtractor (customUserEmailExtractor) configured the
\* userId (userEmail) is exactly its return value and the built-in decoder is not
\* applied; and no identity extractor, custom or built-in, is invoked unless a
\* token was found.
C14_CustomExtractorsTakeOver ==
    \A r \in 1..Len(reqs) :
        Audited(r) =>
            LET request == reqs[r].request
                info == reqs[r].tokenInfo
                found == info.token # Undefined /\ info.token # <<>>
            IN  /\ options.customTokenExtractor = "header" =>
                      /\ info.token = (IF "my-custom-token" \in DOMAIN request.headers
                                       THEN request.headers["my-custom-token"]
                                       ELSE Undefined)
                      /\ "extractTokenFromRequest" \notin reqs[r].invoked
                /\ (found /\ options.customUserIdExtractor # "none") =>
                      /\ info.userId = ReturnOf(options.customUserIdExtractor, CustomUserId)
                      /\ "extractUserIdFromCustomToken" \notin reqs[r].invoked
                /\ (found /\ options.customUserEmailExtractor # "none") =>
                      /\ info.userEmail
                             = ReturnOf(options.customUserEmailExtractor, CustomUserEmail)
                      /\ "extractEmailFromCustomToken" \notin reqs[r].invoked
                /\ ~ found =>
                      /\ reqs[r].invoked \subseteq
                             {"customTokenExtractor", "extractTokenFromRequest"}
                      /\ info.userId = Undefined
                      /\ info.userEmail = Undefined
                /\ \A k \in AttemptsFor(r) :
                      /\ attempts[k].data.token = info.token
                      /\ attempts[k].data.userId = info.userId
                      /\ attempts[k].data.userEmail = info.userEmail

\* a record without token nor identity for a request whose Authorization header
\* carries a bearer token, because the configured token extractor returned
\* nothing; the identity extractors, configured too, were not called
C14_Witness ==
    \E k \in DOMAIN attempts :
        /\ options.customTokenExtractor = "header"
        /\ options.customUserIdExtractor = "custom"
        /\ "authorization" \in DOMAIN reqs[k[1]].request.headers
        /\ reqs[k[1]].invoked = {"customTokenExtractor"}
        /\ attempts[k].data.token = Undefined
        /\ attempts[k].data.userId = Undefined

\* C17: sanitizing sanitized headers changes nothing: for the headers h of every
\* request, sanitizeHeaders(sanitizeHeaders(h)) = sanitizeHeaders(h), where
\* sanitizeHeaders(h) is what the composed record carries; and the headers
\* {authorization: "Bearer xyz", "content-type": "json"} are recorded as
\* {authorization: "[REDACTED]", "content-type": "json"}.
C17_SanitizeIdempotent ==
    \A k \in DOMAIN attempts :
        LET d == attempts[k].data.requestData
            h == reqs[k[1]].request.headers
        IN  d.present =>
                /\ sanitizeHeaders(d.headers) = d.headers
                /\ h = HeadersExample =>
                       d.headers = ("authorization" :> Redacted) @@ ("content-type" :> Json)

\* the record of the request with the headers of the example is composed, its
\* authorization header redacted
C17_Witness ==
    \E k \in DOMAIN attempts :
        /\ reqs[k[1]].request.headers = HeadersExample
        /\ attempts[k].data.requestData.present
        /\ attempts[k].data.requestData.headers["authorization"] = Redacted

\* C18: the request fields of every composed record (timestamp, method, endpoint,
\* headers, query, body, ip, user agent, token, user id and e-mail) are those the
\* request had when intercept() was called, whatever the handler or later code
\* did to the request's body, query or headers before the deferred write ran.
C18_RecordReflectsRequestAtEntry ==
    \A k \in DOMAIN attempts :
        LET d == attempts[k].data
            entry == reqs[k[1]].received
        IN  /\ d.timestamp = reqs[k[1]].timestamp
            /\ d.httpMethod = entry.method
            /\ d.endpoint = entry.url
            /\ d.ipAddress = extractRealIp(entry)
            /\ d.userAgent = Or(get(entry, "User-Agent"), <<>>)
            /\ d.token = extractTokenFromRequest(entry)
            /\ d.userId = reqs[k[1]].tokenInfo.userId
            /\ d.userEmail = reqs[k[1]].tokenInfo.userEmail
            /\ d.requestData.present =>
                  /\ d.requestData.body = entry.body
                  /\ d.requestData.query = entry.query
                  /\ d.requestData.headers = sanitizeHeaders(entry.headers)

\* the rows a call of saveAuditLog has put into the store
RowsOf(k) == {i \in 1..Len(store) : store[i].id = attempts[k].row}

\* the calls of saveAuditLog a row stems from
InsertersOf(i) == {k \in DOMAIN attempts : attempts[k].row = store[i].id}

\* C19: with two audited requests in flight together, in every interleaving of
\* their handlers, deferred callbacks and store answers each composed record is
\* inserted at most once, every row stems from exactly one record and still is
\* that record as composed (no later insert has touched it), and a record carries
\* the fields of its own request only.  The order of the rows is not fixed by the
\* order of the requests.
C19_ConcurrentInsertsIndependent ==
    /\ \A k \in DOMAIN attempts :
          /\ Cardinality(RowsOf(k)) = (IF attempts[k].outcome = "saved" THEN 1 ELSE 0)
          /\ LET d == attempts[k].data
                 own == reqs[k[1]]
             IN  /\ d.httpMethod = own.request.method
                 /\ d.endpoint = own.request.url
                 /\ d.token = own.tokenInfo.token
                 /\ d.userId = own.tokenInfo.userId
                 /\ d.userEmail = own.tokenInfo.userEmail
                 /\ d.ipAddress = extractRealIp(own.request)
                 /\ d.userAgent = Or(get(own.request, "User-Agent"), <<>>)
                 /\ d.requestData.present
                 /\ d.requestData.body = own.request.body
                 /\ d.requestData.query = own.request.query
                 /\ d.requestData.headers = sanitizeHeaders(own.request.headers)
    /\ \A i \in 1..Len(store) :
          /\ Cardinality(InsertersOf(i)) = 1
          /\ \A k \in InsertersOf(i) : store[i].data = attempts[k].data
    /\ \A i, j \in 1..Len(store) : i # j => store[i].id # store[j].id

\* two requests that differ in every field are both recorded, the record of the
\* second one in the store before the record of the first
C19_Witness ==
    /\ Len(reqs) = 2
    /\ reqs[1].request.url # reqs[2].request.url
    /\ Len(store) = 2
    /\ \A k \in InsertersOf(1) : k[1] = 2
    /\ \A k \in InsertersOf(2) : k[1] = 1
    /\ store[1].data.endpoint = reqs[2].request.url
    /\ store[2].data.endpoint = reqs[1].request.url

\* the rows whose timestamp is N days old or less at day t, in store order
NotOlderThan(rows, t, N) ==
    LET recent(row) == row.data.timestamp >= t - N IN SelectSeq(rows, recent)

\* C15: in the step in which a call cleanupOldAuditLogs(N) made at day t resolves,
\* exactly the rows with a timestamp earlier than t - N leave the store, every
\* other row stays as it is, and the call returns the number of rows that left
\* (0 when there was none).
C15_CleanupDeletesOlderThanCutoff ==
    [][\A i \in 1..Len(cleanups) :
          (cleanups[i].state = "pending" /\ cleanups'[i].state = "resolved") =>
              /\ store' = NotOlderThan(store, cleanups[i].calledAt,
                                       cleanups[i].retentionDays)
              /\ cleanups'[i].value = Len(store) - Len(store')
              /\ cleanups'[i].value
                     = Cardinality({j \in 1..Len(store) :
                          store[j].data.timestamp
                             < cleanups[i].calledAt - cleanups[i].retentionDays})]_vars

\* a cleanup found two rows, deleted the older one and returned 1; the row that
\* is left carries the cutoff itself as its timestamp
C15_Witness ==
    \E i \in 1..Len(cleanups) :
        /\ cleanups[i].state = "resolved"
        /\ cleanups[i].rowsBefore = 2
        /\ cleanups[i].value = 1
        /\ Len(store) = 1
        /\ store[1].data.timestamp = cleanups[i].calledAt - cleanups[i].retentionDays

\* C16: a call of cleanupOldAuditLogs whose DELETE failed is rejected with the
\* error the store raised, never resolved with a count, and the failure is
\* logged; a call of saveAuditLog is never rejected.
C16_CleanupFailureReRaised ==
    /\ \A i \in 1..Len(cleanups) :
          cleanups[i].deleteFailed =>
              /\ cleanups[i].state = "rejected"
              /\ cleanups[i].error = DeleteError
    /\ \A i \in 1..Len(cleanups) :
          cleanups[i].state = "rejected" => cleanups[i].deleteFailed
    /\ errorLog = Cardinality({k \in DOMAIN attempts : Failed(k)})
                  + Cardinality({i \in 1..Len(cleanups) : cleanups[i].deleteFailed})
    /\ \A k \in DOMAIN attempts : attempts[k].result # "rejected"

\* a cleanup was rejected with the store's error, with rows in the store, and a
\* rejected save was contained
C16_Witness ==
    /\ \E i \in 1..Len(cleanups) :
          /\ cleanups[i].state = "rejected"
          /\ cleanups[i].error = DeleteError
          /\ cleanups[i].rowsBefore >= 1
    /\ \E k \in DOMAIN attempts :
          attempts[k].outcome = "saveRejected" /\ attempts[k].result = "resolved"

\* sub occurs in s
Substring(s, sub) ==
    \E i \in 0..(Len(s) - Len(sub)) : SubSeq(s, i + 1, i + Len(sub)) = sub

\* the row satisfies every filter that was supplied
Satisfies(row, f) ==
    /\ f.userId # Undefined => row.data.userId = f.userId
    /\ f.serviceName # "undefined" => row.data.serviceName = f.serviceName
    /\ f.httpMethod # "undefined" => row.data.httpMethod = f.httpMethod
    /\ f.statusCode # 0 => row.data.statusCode = f.statusCode
    /\ f.endpoint # Undefined => Substring(row.data.endpoint, f.endpoint)
    /\ f.startDate.given => row.data.timestamp >= f.startDate.value
    /\ f.endDate.given => row.data.timestamp <= f.endDate.value

\* the requested sort key of a row, timestamp by default
SortKey(row, o) ==
    IF o.sortBy = "statusCode" THEN row.data.statusCode ELSE row.data.timestamp

\* the sequence is sorted in the requested direction, descending by default
Sorted(seq, o) ==
    \A i, j \in 1..Len(seq) :
        i < j => IF o.sortOrder = "ASC" THEN SortKey(seq[i], o) <= SortKey(seq[j], o)
                 ELSE SortKey(seq[i], o) >= SortKey(seq[j], o)

\* the sorted arrangements of a set of rows
Arrangements(rows, o) ==
    {seq \in [1..Cardinality(rows) -> rows] :
        (\A i, j \in DOMAIN seq : i # j => seq[i] # seq[j]) /\ Sorted(seq, o)}

\* the page-th run of limit elements of a sequence, as far as it reaches
Window(seq, page, limit) ==
    [i \in 1..(IF Len(seq) - (page - 1) * limit < 0 THEN 0
               ELSE IF Len(seq) - (page - 1) * limit > limit THEN limit
               ELSE Len(seq) - (page - 1) * limit) |-> seq[(page - 1) * limit + i]]

\* C20: a call of getAuditLogs returns only rows of the store that satisfy every
\* supplied filter (userId, serviceName, httpMethod, statusCode equal, endpoint
\* containing the given text, timestamp within [startDate, endDate]), sorted by
\* the requested field and direction (timestamp descending by default); data is
\* the page-th window of at most limit rows (page 1 and limit 50 by default) of
\* the sorted matching rows, and total is the number of all matching rows.
C20_QueryFiltersSortsPages ==
    [][Len(queries') > Len(queries) =>
          LET q == queries'[Len(queries')]
              f == q.filters
              o == q.options
              data == q.result.data
              page == IF o.page = 0 THEN 1 ELSE o.page
              limit == IF o.limit = 0 THEN 50 ELSE o.limit
              matching == {store[j] : j \in {i \in 1..Len(store) : Satisfies(store[i], f)}}
          IN  /\ \A i \in 1..Len(data) : data[i] \in matching
              /\ Sorted(data, o)
              /\ Len(data) <= limit
              /\ \E seq \in Arrangements(matching, o) : data = Window(seq, page, limit)
              /\ q.result.total = Cardinality(matching)
              /\ q.result.page = page
              /\ q.result.limit = limit
      ]_vars

(***************************************************************************)
(* SpecClock: two audited requests under a wall clock that can be set back *)
(* between any two readings; the store never fails.                        *)
(***************************************************************************)
ClockEnv ==
    [handlers |-> {Marked("true", "undefined")},
     requests |-> {Request(Users, HeadersBearer, EmptyMap)},
     values |-> {"created"},
     statusCodes |-> {201},
     errors |-> {CHOOSE e \in HandlerErrors : e.hasStatus},
     createThrows |-> {FALSE},
     saveRejects |-> {FALSE},
     maxRequests |-> MaxRequests,
     maxEvents |-> MaxSoloEvents,
     maxClock |-> MaxClock,
     clockSetBack |-> TRUE]

InitClock == InitWith(TokenOptions)

NextClock == NextIn(ClockEnv)

SpecClock == InitClock /\ [][NextClock]_vars

(***************************************************************************)
(* C21.  Execution time.                                                   *)
(***************************************************************************)
\* the reading of Date.now() at the settlement that composed record k reports
SettledAt(k) == reqs[k[1]].settled[k[2]]

\* every composed record's executionTimeMs is the reading at settlement minus the
\* reading at entry, whatever time the deferred write took to start
ExecutionTimeIsDifference ==
    \A k \in DOMAIN attempts :
        attempts[k].data.executionTimeMs = SettledAt(k) - reqs[k[1]].startTime

\* C21: in every composed record executionTimeMs is at least 0 and equals the
\* clock reading at the handler's settlement minus the reading at interceptor
\* entry; the delay of the deferred write is not included
C21_ExecutionTimeNonNegativeDifference ==
    \A k \in DOMAIN attempts :
        /\ attempts[k].data.executionTimeMs >= 0
        /\ attempts[k].data.executionTimeMs = SettledAt(k) - reqs[k[1]].startTime

(***************************************************************************)
(* SpecRoutes: one call of intercept() for a marked handler under          *)
(* exclusion lists of every kind that compiles (unset, empty, prefixes,    *)
(* patterns with "*", a pattern with "." and "*") and URLs around them.    *)
(***************************************************************************)
Api == <<"/", "a", "p", "i">>
HealthUpper == <<"/", "H", "e", "a", "l", "t", "h">>
HealthSlash == <<"/", "h", "e", "a", "l", "t", "h", "/">>
ApiAnything == <<"/", "a", "p", "i", "/", "a", "n", "y", "t", "h", "i", "n", "g">>
ApiV1Dot0Users ==
    <<"/", "a", "p", "i", "/", "v", "1", ".", "0", "/", "u", "s", "e", "r", "s">>
ApiV1x0Users ==
    <<"/", "a", "p", "i", "/", "v", "1", "x", "0", "/", "u", "s", "e", "r", "s">>

ApiV1Dot0Star == <<"/", "a", "p", "i", "/", "v", "1", ".", "0", "/", "*">>
StarUsers == <<"*", "/", "u", "s", "e", "r", "s">>

RouteLists ==
    {NoRoutes, <<>>, <<Health, ApiStar>>, <<ApiStar, Health>>, <<HealthSlash>>,
     <<HealthUpper>>, <<StarUsers>>, <<ApiV1Dot0Star>>}

RoutesOptions == {Options(routes, "false", "false", "none", "none", "none") :
                     routes \in RouteLists}

RoutesEnv ==
    [handlers |-> {Marked("undefined", "undefined")},
     requests |-> {Request(u, HeadersBearer, EmptyMap) :
                      u \in {Health, Health2, HealthUpper, HealthSlash, Api, ApiX,
                             ApiV2, ApiAnything, Users, ApiV1Dot0Users, ApiV1x0Users}},
     values |-> {"created"},
     statusCodes |-> {201},
     errors |-> {CHOOSE e \in HandlerErrors : e.hasStatus},
     createThrows |-> {FALSE},
     saveRejects |-> {FALSE},
     maxRequests |-> MaxSoloRequests,
     maxEvents |-> MaxSoloEvents,
     maxClock |-> 0,
     clockSetBack |-> FALSE]

InitRoutes == InitWith(RoutesOptions)

NextRoutes == NextIn(RoutesEnv)

SpecRoutes == InitRoutes /\ [][NextRoutes]_vars

(***************************************************************************)
(* C22, C30.  Which URLs the exclusion list excludes.                      *)
(***************************************************************************)
\* url is pattern with each "*" replaced by some sequence of characters
RECURSIVE IsInstance(_, _)
IsInstance(url, pattern) ==
    IF pattern = <<>> THEN url = <<>>
    ELSE IF Head(pattern) = "*"
    THEN \/ IsInstance(url, Tail(pattern))
         \/ url # <<>> /\ IsInstance(Tail(url), pattern)
    ELSE url # <<>> /\ Head(url) = Head(pattern) /\ IsInstance(Tail(url), Tail(pattern))

\* the pattern matches the URL as the specification describes matching
Matches(pattern, url) ==
    IF "*" \in Range(pattern) THEN IsInstance(url, pattern)
    ELSE Len(pattern) <= Len(url) /\ SubSeq(url, 1, Len(pattern)) = pattern

\* shouldExcludeRoute returned true for request r: a marked handler's request
\* left intercept() unaudited
Excluded(r) == reqs[r].handler.marked /\ reqs[r].state = "NOT_AUDITED"

\* C22: shouldExcludeRoute(url) is true exactly when some configured pattern
\* matches: a pattern with "*" iff the whole URL is the pattern with each "*"
\* standing for any sequence of characters, a pattern without "*" iff the URL
\* starts with it byte for byte; with ["/health", "/api/*"] the URLs /health,
\* /health2 and /api/anything are excluded and /apiv2 and /api are not; with an
\* empty or missing list nothing is excluded.
C22_ExcludedIffSomePatternMatches ==
    \A r \in 1..Len(reqs) :
        reqs[r].handler.marked =>
            LET url == reqs[r].request.url
                routes == IF options.excludeRoutes = NoRoutes THEN <<>>
                          ELSE options.excludeRoutes
            IN  /\ Excluded(r) <=> \E i \in 1..Len(routes) : Matches(routes[i], url)
                /\ options.excludeRoutes = <<Health, ApiStar>> =>
                      /\ url \in {Health, Health2, ApiAnything} => Excluded(r)
                      /\ url \in {ApiV2, Api} => ~ Excluded(r)
                /\ options.excludeRoutes \in {NoRoutes, <<>>} => ~ Excluded(r)

\* C30: in a pattern that contains "*" every other character matches only
\* itself: a URL is excluded by such a pattern only if it is the pattern with
\* each "*" replaced by some sequence of characters (the pattern /api/v1.0/*
\* does not exclude /api/v1x0/users).
C30_PatternCharactersLiteral ==
    \A r \in 1..Len(reqs) :
        (/\ Excluded(r)
         /\ options.excludeRoutes # NoRoutes
         /\ \A i \in 1..Len(options.excludeRoutes) :
               "*" \in Range(options.excludeRoutes[i])) =>
            \E i \in 1..Len(options.excludeRoutes) :
                IsInstance(reqs[r].request.url, options.excludeRoutes[i])

(***************************************************************************)
(* SpecJson: one audited request whose bearer token is a JSON object with  *)
(* up to MaxMembers members, a token of neither shape, or a token the      *)
(* built-in decoders cannot decode.                                        *)
(***************************************************************************)
\* tokens that are neither three dotted parts nor start with "{"
PlainTokens == {<<"a">>, <<"a", ".", "b">>, <<"a", ".", "b", ".", "c", ".", "d">>}

\* a JWT whose middle part decodes to the given text; a part outside the
\* base64url alphabet decodes to garbage
JwtOf(payload) == <<"h", ".">> \o payload \o <<".", "s">>

\* tokens on which decoding fails: a middle part that is no base64url of JSON,
\* a payload cut short, the payloads null and 5, a JSON text cut short, a JSON
\* text with a member that is not one
UndecodableTokens ==
    {JwtOf(<<"!">>), JwtOf(<<"b64:{", "b64:sub:u1">>), JwtOf(<<"b64:null">>),
     JwtOf(<<"b64:5">>), <<"{", "sub:u1">>, <<"{", "!", "}">>}

JsonRequests ==
    {Request(Users, ("authorization" :> Bearer(t)), EmptyMap) :
        t \in {JsonObject(ms) : ms \in MemberLists(MaxMembers)}
               \cup PlainTokens \cup UndecodableTokens}

JsonEnv ==
    [handlers |-> {Marked("undefined", "undefined")},
     requests |-> JsonRequests,
     values |-> {"created"},
     statusCodes |-> {201},
     errors |-> {CHOOSE e \in HandlerErrors : e.hasStatus},
     createThrows |-> {FALSE},
     saveRejects |-> {FALSE},
     maxRequests |-> MaxSoloRequests,
     maxEvents |-> MaxSoloEvents,
     maxClock |-> 0,
     clockSetBack |-> FALSE]

InitJson == InitWith(TokenOptions)

NextJson == NextIn(JsonEnv)

SpecJson == InitJson /\ [][NextJson]_vars

(***************************************************************************)
(* C23, C24.  Tokens that are JSON texts, and tokens that do not decode.   *)
(***************************************************************************)
\* the bearer token request r carries is t
Bears(r, t) ==
    /\ "authorization" \in DOMAIN reqs[r].request.headers
    /\ reqs[r].request.headers["authorization"] = Bearer(t)

\* the same value, an empty string counting as no value
SameValue(a, b) == a = b \/ (~ Truthy(a) /\ ~ Truthy(b))

\* C23: for a token that is not of the three-part dotted shape and starts with
\* "{", the whole token is parsed as JSON and the field priority of the JWT shape
\* applies: userId is the first present of sub, userId, id, user_id and userEmail
\* the first present of email, user_email, userEmail; a token of neither shape
\* yields absent userId and userEmail.
C23_JsonTokenFieldPriority ==
    \A r \in 1..Len(reqs) :
        Audited(r) =>
            /\ \A ms \in MemberLists(MaxMembers) :
                   Bears(r, JsonObject(ms)) =>
                       /\ SameValue(reqs[r].tokenInfo.userId,
                              FirstPresent(ms, <<"sub", "userId", "id", "user_id">>))
                       /\ SameValue(reqs[r].tokenInfo.userEmail,
                              FirstPresent(ms, <<"email", "user_email", "userEmail">>))
            /\ \A t \in PlainTokens :
                   Bears(r, t) =>
                       /\ reqs[r].tokenInfo.userId = Undefined
                       /\ reqs[r].tokenInfo.userEmail = Undefined

\* C24: for every token on which built-in decoding fails (malformed base64url,
\* malformed JSON, a payload that is not an object) the built-in user-id and
\* user-email extraction return absent values and never raise; the record is
\* still composed, with the raw token and absent userId and userEmail.
C24_DecodingFailuresSwallowed ==
    \A r \in 1..Len(reqs) :
        \A t \in UndecodableTokens :
            Bears(r, t) =>
                /\ reqs[r].state = "CAPTURING"
                /\ reqs[r].tokenInfo
                       = [token |-> t, userId |-> Undefined, userEmail |-> Undefined]
                /\ \A k \in AttemptsFor(r) :
                       /\ attempts[k].data.token = t
                       /\ attempts[k].data.userId = Undefined
                       /\ attempts[k].data.userEmail = Undefined
                /\ Len(reqs[r].settled) > 0 /\ immediates = <<>> => AttemptsFor(r) # {}

\* a record composed for a JWT whose payload is null
C24_Witness ==
    \E k \in DOMAIN attempts :
        /\ Bears(k[1], JwtOf(<<"b64:null">>))
        /\ attempts[k].data.token = JwtOf(<<"b64:null">>)
        /\ attempts[k].data.userId = Undefined

(***************************************************************************)
(* SpecLive: one audited request whose stream can emit up to MaxEvents     *)
(* notifications, on an event loop that keeps running: a callback handed   *)
(* to setImmediate is eventually run.  The store can fail.                 *)
(***************************************************************************)
LiveEnv ==
    [handlers |-> {Marked("undefined", "undefined")},
     requests |-> {Request(Users, HeadersBearer, EmptyMap)},
     values |-> {"created"},
     statusCodes |-> {201},
     errors |-> HandlerErrors,
     createThrows |-> BOOLEAN,
     saveRejects |-> BOOLEAN,
     maxRequests |-> MaxSoloRequests,
     maxEvents |-> MaxEvents,
     maxClock |-> MaxClock,
     clockSetBack |-> FALSE]

InitLive == InitWith(TokenOptions)

NextLive == NextIn(LiveEnv)

\* the process does not terminate and the check phase of the event loop runs
\* the callbacks queued with setImmediate
SpecLive == InitLive /\ [][NextLive]_vars /\ WF_vars(RunImmediate(LiveEnv))

(***************************************************************************)
(* C25.  Every settlement leads to one insert attempt.                     *)
(***************************************************************************)
\* the handler of audited request r has settled with a value or an error
Settled(r) == r <= Len(reqs) /\ Audited(r) /\ Len(reqs[r].emitted) > 0

\* calls of saveAuditLog made for request r
InsertAttempts(r) == Cardinality(AttemptsFor(r))

\* C25: when scheduled callbacks are eventually run, every audited request whose
\* handler settles (value or error) eventually leads to exactly one insert
\* attempt on the store, with no retry after a failed attempt; a request whose
\* handler never settles never produces a record.
C25_SettledLeadsToOneAttempt ==
    \A r \in 1..MaxSoloRequests :
        /\ [](Settled(r) => <>[](InsertAttempts(r) = 1))
        /\ [](r <= Len(reqs) /\ Audited(r) => InsertAttempts(r) <= 1)
        /\ [](\A k \in AttemptsFor(r) : attempts[k].creates <= 1 /\ attempts[k].saves <= 1)
        /\ [](r <= Len(reqs) /\ Len(reqs[r].emitted) = 0 =>
                 WritesFor(r) = 0 /\ RowsFor(r) = {})

(***************************************************************************)
(* SpecStats: one call of getAuditStatistics, under every combination of   *)
(* its filters, over a table that holds rows written by earlier runs,      *)
(* while one audited request is served and its record inserted.            *)
(***************************************************************************)
MaxStatistics == 1

\* a row of audit_logs as saveAuditLog writes it
AuditRow(id, timestamp, endpoint, userId, statusCode, executionTimeMs, serviceName) ==
    [id |-> id,
     data |-> [timestamp |-> timestamp, userId |-> userId, userEmail |-> Undefined,
               httpMethod |-> "POST", endpoint |-> endpoint,
               serviceName |-> serviceName, actionDescription |-> "Create user",
               requestData |-> NoRequestData, responseData |-> "undefined",
               userAgent |-> Curl, ipAddress |-> Addr, token |-> <<"a">>,
               statusCode |-> statusCode, executionTimeMs |-> executionTimeMs]]

StoredRows ==
    <<AuditRow(1, 0, Users, <<"u", "1">>, 201, 0, "UsersService"),
      AuditRow(2, 1, ApiX, <<"u", "2">>, 404, 1, "OrdersService"),
      AuditRow(3, 1, Users, Undefined, 500, 1, "UsersService")>>

\* the table at construction: empty, or rows of earlier runs
Stores == {SubSeq(StoredRows, 1, n) : n \in 0..Len(StoredRows)}

StatisticsFilters ==
    {[startDate |-> s, endDate |-> e, serviceName |-> n] :
        s \in {NoDate, Date(1)}, e \in {NoDate, Date(0)},
        n \in {"undefined", "UsersService"}}

StatsEnv ==
    [handlers |-> {Marked("undefined", "undefined")},
     requests |-> {Request(Users, HeadersBearer, EmptyMap)},
     values |-> {"created"},
     statusCodes |-> {201},
     errors |-> {CHOOSE e \in HandlerErrors : e.hasStatus},
     createThrows |-> {FALSE},
     saveRejects |-> {FALSE},
     statisticsFilters |-> StatisticsFilters,
     queryRejects |-> BOOLEAN,
     maxStatistics |-> MaxStatistics,
     maxRequests |-> MaxSoloRequests,
     maxEvents |-> MaxSoloEvents,
     maxClock |-> MaxClock,
     clockSetBack |-> FALSE]

InitStats == InitFrom(TokenOptions, Stores)

NextStats ==
    \/ NextIn(StatsEnv)
    \/ getAuditStatistics(StatsEnv)
    \/ StatisticsSettles(StatsEnv)

SpecStats == InitStats /\ [][NextStats]_vars

(***************************************************************************)
(* C26, C27.  The statistics.                                              *)
(***************************************************************************)
\* the rows of the table that match the filters of a statistics call
Filtered(f) ==
    {store[i] : i \in {j \in 1..Len(store) :
        /\ f.startDate.given => store[j].data.timestamp >= f.startDate.value
        /\ f.endDate.given => store[j].data.timestamp <= f.endDate.value
        /\ f.serviceName # "undefined" => store[j].data.serviceName = f.serviceName}}

RECURSIVE TotalMs(_)
TotalMs(rows) ==
    IF rows = {} THEN 0
    ELSE LET row == CHOOSE x \in rows : TRUE IN
         row.data.executionTimeMs + TotalMs(rows \ {row})

\* C26: every component of the getAuditStatistics result (totalRequests,
\* successfulRequests, failedRequests, averageExecutionTime, topEndpoints,
\* topUsers) is computed over exactly the rows that match the supplied startDate,
\* endDate and serviceName filters, as the table holds them when the component
\* is computed; no component counts a row outside that set.
C26_StatisticsOverFilteredSet ==
    [][\A i \in 1..Len(statistics) :
          LET was == statistics[i].pc
              call == statistics'[i]
              M == Filtered(call.filters)
          IN  call.pc \notin {was, "rejected"} =>
                /\ was = "total" => call.totalRequests = Cardinality(M)
                /\ was = "successful" =>
                      call.successfulRequests
                          = Cardinality({row \in M : /\ row.data.statusCode >= 200
                                                      /\ row.data.statusCode < 300})
                /\ was = "failed" =>
                      call.failedRequests
                          = Cardinality({row \in M : row.data.statusCode >= 400})
                /\ was = "average" =>
                      IF M = {} THEN call.averageExecutionTime.num = 0
                      ELSE call.averageExecutionTime.num * Cardinality(M)
                               = TotalMs(M) * call.averageExecutionTime.den
                /\ was = "topEndpoints" =>
                      /\ \A k \in 1..Len(call.topEndpoints) :
                            call.topEndpoints[k].count
                                = Cardinality({row \in M :
                                      row.data.endpoint = call.topEndpoints[k].endpoint})
                      /\ \A row \in M : \E k \in 1..Len(call.topEndpoints) :
                            call.topEndpoints[k].endpoint = row.data.endpoint
                /\ was = "topUsers" =>
                      /\ \A k \in 1..Len(call.topUsers) :
                            call.topUsers[k].count
                                = Cardinality({row \in M :
                                      row.data.userId = call.topUsers[k].userId})
                      /\ \A row \in M :
                            row.data.userId # Undefined =>
                                \E k \in 1..Len(call.topUsers) :
                                    call.topUsers[k].userId = row.data.userId
      ]_vars

\* C27: in every result of getAuditStatistics successfulRequests +
\* failedRequests is at most totalRequests, also when inserts interleave with
\* the count queries of the operation.
C27_SuccessfulPlusFailedAtMostTotal ==
    \A i \in 1..Len(statistics) :
        statistics[i].pc = "returned" =>
            statistics[i].successfulRequests + statistics[i].failedRequests
                <= statistics[i].totalRequests

(***************************************************************************)
(* SpecCredential: the requests of SpecToken, each with a credential in    *)
(* up to MaxSources + 1 places, to a handler that logs the request data.   *)
(***************************************************************************)
CredentialEnv == [TokenEnv EXCEPT !.handlers = {Marked("true", "undefined")}]

InitCredential == InitWith(TokenOptions)

NextCredential == NextIn(CredentialEnv)

SpecCredential == InitCredential /\ [][NextCredential]_vars

(***************************************************************************)
(* C28.  The resolved credential is not in the stored request data.        *)
(***************************************************************************)
\* some value of the map holds the text
AppearsIn(map, text) == \E n \in DOMAIN map : Substring(map[n], text)

\* C28: in every persisted record with requestData present, the raw credential
\* the token extractor resolved for the request does not appear anywhere in
\* requestData (headers, query or body), whichever source it was resolved from
\* (Authorization header, custom header, query parameter).
C28_CredentialNotInRequestData ==
    \A i \in 1..Len(store) :
        LET data == store[i].data IN
        (data.requestData.present /\ Truthy(data.token)) =>
            /\ ~ AppearsIn(data.requestData.headers, data.token)
            /\ ~ AppearsIn(data.requestData.query, data.token)

\* the same for the headers alone
CredentialNotInStoredHeaders ==
    \A i \in 1..Len(store) :
        LET data == store[i].data IN
        (data.requestData.present /\ Truthy(data.token)) =>
            ~ AppearsIn(data.requestData.headers, data.token)

(***************************************************************************)
(* SpecDiag: calls of testConnection, each step of which can fail, over a  *)
(* table that holds rows written by earlier runs.                          *)
(***************************************************************************)
MaxDiagnostics == 2

DiagEnv ==
    [repository |-> {"absent", "unregistered", "uninitialized", "ready"},
     tableExists |-> BOOLEAN,
     stepRejects |-> BOOLEAN,
     maxDiagnostics |-> MaxDiagnostics,
     maxClock |-> MaxClock,
     clockSetBack |-> FALSE]

InitDiag == InitFrom(TokenOptions, Stores)

NextDiag == testConnection(DiagEnv) \/ ConnectionSettles(DiagEnv)

SpecDiag == InitDiag /\ [][NextDiag]_vars

(***************************************************************************)
(* C29.  testConnection leaves the table as it found it.                   *)
(***************************************************************************)
\* the rows that are not test records of testConnection
Ordinary(rows) ==
    LET ordinary(row) == row.data.serviceName # "AuditLoggerDiagnostic"
    IN  SelectSeq(rows, ordinary)

\* C29: after testConnection returns, whatever the outcome of its steps, the
\* table holds exactly the records it held before the call: the diagnostic test
\* record is never left behind, and a result with canWrite = false is returned
\* only when no test record was written.  With two calls running together the
\* test record of the other call is not counted among the records.
C29_DiagnosticLeavesNoRecord ==
    \A i \in 1..Len(diagnostics) :
        diagnostics[i].pc = "returned" =>
            /\ \A j \in 1..Len(store) : store[j].id # diagnostics[i].testLog
            /\ Ordinary(store) = Ordinary(diagnostics[i].before)
            /\ ~ diagnostics[i].result.canWrite => ~ diagnostics[i].written
====
